---- MODULE Spec2Model ----
(***************************************************************************)
(* sshr: the session lifecycle of the terminal UI.  One cooperative main   *)
(* loop (run_app) owns the App state and the terminal; an SSH worker       *)
(* thread and an SFTP worker thread report to it over mpsc channels; the   *)
(* host registry is rebuilt from the system SSH config and the custom      *)
(* hosts file.                                                             *)
(*                                                                         *)
(* Conventions.  Option<T> is <<>> (None) or <<v>> (Some(v)).  A String    *)
(* that is searched or trimmed is a sequence of one-character strings; a   *)
(* message is a sequence of pieces (literal texts and characters), and     *)
(* format!/concatenation is \o.  Indices stored in the state are 0-based   *)
(* as in the code; a Vec v is read at v[i + 1].                            *)
(***************************************************************************)
EXTENDS Integers, Sequences, FiniteSets, TLC

\* ------------------------------------------------------------------ bounds

\* connect requests (SSH worker threads) of one run
MaxSessions == 2
\* SFTP-entry requests (SFTP worker threads) of one run
MaxSftp == 2
\* length of the search query the user may type
MaxQueryLen == 1
\* number of times the files on disk are edited during a run
MaxEdits == 1
\* number of host entries in one file
MaxSourceLen == 2
\* length, in characters, of the paths the user navigates to
MaxPathLen == 5
\* transfers (calls of upload_file and download_file that spawn a task) of one run
MaxTransfers == 2
\* capacity of the bounded channel the transfer tasks send to (a file of more
\* chunks than the capacity can fill the channel by itself)
TransferChanCapacity == 1
\* bytes one read of the copy loop takes, and one write of scp adds (the
\* program's buffer holds 8192 bytes; the model's files hold up to 3)
ChunkLen == 2
\* seconds that pass during one round of the download monitor
ClockStep == 200
\* sftp_download: the seconds after which a download without progress is given up
StallTimeoutSecs == 300

None == <<>>
Some(v) == <<v>>

\* ------------------------------------------------------------------ text

IsWhitespace(c) == c = " "

RECURSIVE TrimStart(_)
TrimStart(s) ==
    IF s # <<>> /\ IsWhitespace(Head(s)) THEN TrimStart(Tail(s)) ELSE s

RECURSIVE TrimEnd(_)
TrimEnd(s) ==
    IF s # <<>> /\ IsWhitespace(s[Len(s)])
    THEN TrimEnd(SubSeq(s, 1, Len(s) - 1))
    ELSE s

\* str::trim
Trim(s) == TrimEnd(TrimStart(s))

\* char::to_lowercase on the characters the model uses
LowerChar(c) == IF c = "W" THEN "w" ELSE IF c = "A" THEN "a" ELSE c

\* str::to_lowercase
ToLowercase(s) == [i \in DOMAIN s |-> LowerChar(s[i])]

\* str::contains
Contains(hay, needle) ==
    \E i \in 0..(Len(hay) - Len(needle)) :
        SubSeq(hay, i + 1, i + Len(needle)) = needle

\* all sequences over S of length at most n
RECURSIVE SeqsUpTo(_, _)
SeqsUpTo(S, n) ==
    IF n = 0 THEN {<<>>}
    ELSE LET shorter == SeqsUpTo(S, n - 1)
         IN  shorter \cup {Append(s, c) : s \in shorter, c \in S}

\* ----------------------------------------------------------- host registry

\* SshHost (description, set from a DNS lookup at load time, is left out)
Host(alias, address, user, port, group) ==
    [alias |-> alias, host |-> address, user |-> user, port |-> port, group |-> group]

Web1 == <<"w", "1">>
Db1 == <<"d", "1">>
App1 == <<"a", "1">>

\* what the system SSH config may hold: Host blocks, parsed (SshHost::new gives
\* user root, port 22 and no group; HostName/User/Port lines overwrite)
SystemPool ==
    { Host(Web1, <<"1", "0">>, <<"u">>, Some(22), None),
      Host(Db1, <<>>, <<"r">>, Some(22), None) }

\* what the custom hosts file may hold: hosts flattened with their group's name
CustomPool ==
    { Host(Web1, <<"1", "0">>, <<"a">>, Some(22), Some("Prod")),
      Host(App1, <<"1", "1">>, <<"a">>, Some(2222), Some("Dev")) }

\* every group name of the model, in String order
GroupUniverse == <<"Dev", "Prod", "Ungrouped">>

Aliases(hs) == {hs[i].alias : i \in DOMAIN hs}

\* Vec::retain(|h| h.group.is_some())
RetainCustom(hs) == SelectSeq(hs, LAMBDA h : h.group # None)

\* the push-unless-alias-exists of load_ssh_config, over the parsed Host blocks
RECURSIVE PushSystemHosts(_, _)
PushSystemHosts(hs, src) ==
    IF src = <<>> THEN hs
    ELSE LET h == Head(src)
         IN  PushSystemHosts(IF h.alias \in Aliases(hs) THEN hs ELSE Append(hs, h),
                             Tail(src))

\* load_ssh_config: [ok, hosts]
LoadSshConfig(hs, sys) ==
    LET kept == RetainCustom(hs)
    IN  CASE sys.state = "missing" -> [ok |-> TRUE, hosts |-> kept]
          [] sys.state = "unreadable" -> [ok |-> FALSE, hosts |-> kept]
          [] OTHER -> [ok |-> TRUE, hosts |-> PushSystemHosts(kept, sys.hosts)]

\* the retain as a bug would have it: every host kept
RetainEveryAlias(cs, seen) == cs

\* custom_hosts.retain(..) with existing_aliases: drops a host whose alias is
\* already known, remembers the alias otherwise
RECURSIVE RetainNewAliases(_, _)
RetainNewAliases(cs, seen) ==
    IF cs = <<>> THEN <<>>
    ELSE LET h == Head(cs)
         IN  IF h.alias \in seen
             THEN RetainNewAliases(Tail(cs), seen)
             ELSE <<h>> \o RetainNewAliases(Tail(cs), seen \cup {h.alias})

\* ConfigManager::load_hosts: [ok, hosts]
LoadHosts(cust) ==
    CASE cust.state = "missing" -> [ok |-> TRUE, hosts |-> <<>>]
      [] cust.state = "malformed" -> [ok |-> FALSE, hosts |-> <<>>]
      [] OTHER -> [ok |-> TRUE, hosts |-> cust.hosts]

\* load_custom_hosts as a bug would have it: the new custom hosts put last
LoadCustomHostsAppended(hs, cust) ==
    LET loaded == LoadHosts(cust)
    IN  IF loaded.ok
        THEN hs \o RetainNewAliases(loaded.hosts, Aliases(hs))
        ELSE hs

\* load_custom_hosts: the hosts after it (it never fails)
LoadCustomHosts(hs, cust) ==
    LET loaded == LoadHosts(cust)
    IN  IF loaded.ok
        THEN RetainNewAliases(loaded.hosts, Aliases(hs)) \o hs
        ELSE hs

\* handle_duplicate_hosts
HandleDuplicateHosts(hs) == RetainNewAliases(hs, {})

\* the indices (0-based) of the hosts of group g
HostsOfGroup(hs, g) ==
    LET idx == SelectSeq([i \in 1..Len(hs) |-> i],
                         LAMBDA i : (IF hs[i].group = None THEN "Ungrouped"
                                     ELSE hs[i].group[1]) = g)
    IN  [k \in DOMAIN idx |-> idx[k] - 1]

\* update_hosts_for_selected_group on the registry record r
UpdateHostsForSelectedGroup(r) ==
    IF r.groups = <<>>
    THEN [r EXCEPT !.hosts_in_current_group = <<>>]
    ELSE [r EXCEPT !.hosts_in_current_group =
                        HostsOfGroup(r.hosts, r.groups[r.selected_group + 1]),
                   !.selected_host = 0]

\* update_groups
UpdateGroups(r) ==
    LET names == {r.hosts[i].group[1] : i \in {j \in DOMAIN r.hosts : r.hosts[j].group # None}}
        sorted == SelectSeq(GroupUniverse, LAMBDA g : g \in names)
        r1 == [r EXCEPT !.groups = sorted]
    IN  IF sorted = <<>>
        THEN [r1 EXCEPT !.hosts_in_current_group = <<>>]
        ELSE UpdateHostsForSelectedGroup(
                 [r1 EXCEPT !.selected_group =
                     IF r.selected_group >= Len(sorted) THEN Len(sorted) - 1
                     ELSE r.selected_group])

HostMatches(h, q) ==
    \/ Contains(ToLowercase(h.alias), ToLowercase(q))
    \/ Contains(ToLowercase(h.host), ToLowercase(q))
    \/ Contains(ToLowercase(h.user), ToLowercase(q))

\* filter_hosts
FilterHosts(r) ==
    LET all == [i \in 1..Len(r.hosts) |-> i]
        hit == IF r.search_query = <<>> THEN all
               ELSE SelectSeq(all, LAMBDA i : HostMatches(r.hosts[i], r.search_query))
        found == [k \in DOMAIN hit |-> hit[k] - 1]
    IN  [r EXCEPT !.filtered_hosts = found,
                  !.search_selected = IF r.search_selected >= Len(found) THEN 0
                                      ELSE r.search_selected]

\* load_all_hosts on the registry record r: the record after it, with ok
LoadAllHosts(r, sys, cust) ==
    LET s == LoadSshConfig(r.hosts, sys)
    IN  IF ~s.ok
        THEN [r EXCEPT !.hosts = s.hosts, !.ok = FALSE]
        ELSE LET merged == HandleDuplicateHosts(LoadCustomHosts(s.hosts, cust))
                 g == UpdateGroups([r EXCEPT !.hosts = merged, !.ok = TRUE])
                 c == [g EXCEPT !.selected_host =
                          IF merged = <<>> THEN 0
                          ELSE IF g.selected_host >= Len(merged) THEN Len(merged) - 1
                          ELSE g.selected_host]
             IN  FilterHosts(c)

\* App::default, the registry part
DefaultRegistry ==
    [hosts |-> <<>>, groups |-> <<>>, selected_group |-> 0, selected_host |-> 0,
     hosts_in_current_group |-> <<>>, filtered_hosts |-> <<>>, search_selected |-> 0,
     search_query |-> <<>>, ok |-> TRUE]

Min(S) == CHOOSE x \in S : \A y \in S : x <= y

\* Vec::get(i) on 0-based i
Get(v, i) == IF i < Len(v) THEN Some(v[i + 1]) ELSE None

\* ------------------------------------------------------- Transfer Session

\* str::ends_with(c)
EndsWith(s, c) == s # <<>> /\ s[Len(s)] = c

\* str::trim_end_matches(c)
RECURSIVE TrimEndMatches(_, _)
TrimEndMatches(s, c) ==
    IF EndsWith(s, c) THEN TrimEndMatches(SubSeq(s, 1, Len(s) - 1), c) ELSE s

\* str::split(c).collect(): the pieces between the separators, empty ones included
RECURSIVE Split(_, _)
Split(s, c) ==
    IF \A i \in DOMAIN s : s[i] # c THEN <<s>>
    ELSE LET k == CHOOSE i \in DOMAIN s : s[i] = c /\ \A j \in 1..(i - 1) : s[j] # c
         IN  <<SubSeq(s, 1, k - 1)>> \o Split(SubSeq(s, k + 1, Len(s)), c)

\* [&str]::join(c)
RECURSIVE Join(_, _)
Join(parts, c) ==
    IF parts = <<>> THEN <<>>
    ELSE IF Len(parts) = 1 THEN parts[1]
    ELSE parts[1] \o <<c>> \o Join(Tail(parts), c)

Slash == "/"
RootPath == <<Slash>>
DotDot == <<".", ".">>

\* FileItem
Directory(name) == [kind |-> "Directory", name |-> name, size |-> 0]
File(name, size) == [kind |-> "File", name |-> name, size |-> size]

\* the order of char, for the characters of the model's names
CharOrder == <<"-", ".", "a", "b", "d", "e", "f">>
CharRank(c) == CHOOSE i \in DOMAIN CharOrder : CharOrder[i] = c

\* String::cmp(a, b) = Less
RECURSIVE StrLess(_, _)
StrLess(a, b) ==
    IF b = <<>> THEN FALSE
    ELSE IF a = <<>> THEN TRUE
    ELSE IF a[1] # b[1] THEN CharRank(a[1]) < CharRank(b[1])
    ELSE StrLess(Tail(a), Tail(b))

\* the comparator as a bug would have it: ".." compared by its name
ItemLessByName(a, b) ==
    CASE a.kind = "Directory" /\ b.kind = "Directory" -> StrLess(a.name, b.name)
      [] a.kind = "Directory" /\ b.kind = "File" -> TRUE
      [] a.kind = "File" /\ b.kind = "Directory" -> FALSE
      [] OTHER -> StrLess(a.name, b.name)

\* the comparator of items.sort_by in read_remote_directory and
\* read_local_directory: cmp(a, b) = Less
ItemLess(a, b) ==
    CASE a.kind = "Directory" /\ b.kind = "Directory" ->
             IF a.name = DotDot THEN TRUE
             ELSE IF b.name = DotDot THEN FALSE
             ELSE StrLess(a.name, b.name)
      [] a.kind = "Directory" /\ b.kind = "File" -> TRUE
      [] a.kind = "File" /\ b.kind = "Directory" -> FALSE
      [] OTHER -> StrLess(a.name, b.name)

\* one insertion of the stable sort: x goes before the first item it is Less than
RECURSIVE InsertItem(_, _)
InsertItem(sorted, x) ==
    IF sorted = <<>> THEN <<x>>
    ELSE IF ItemLess(x, Head(sorted)) THEN <<x>> \o sorted
    ELSE <<Head(sorted)>> \o InsertItem(Tail(sorted), x)

\* items.sort_by(..)
RECURSIVE SortItems(_)
SortItems(items) ==
    IF items = <<>> THEN <<>>
    ELSE InsertItem(SortItems(SubSeq(items, 1, Len(items) - 1)), items[Len(items)])

\* the names of the model's directories and files
DirA == <<"a">>
DirB == <<"b", "d">>
FileE == <<"e">>
FileF == <<"f">>

\* the remote file system: what `ls -la` prints for each directory, its "." and
\* ".." lines included, in the order ls prints them
RemoteFs ==
    [p \in {RootPath, <<Slash>> \o DirA, <<Slash>> \o DirA \o <<Slash>> \o DirB} |->
        CASE p = RootPath ->
                 <<Directory(<<".">>), Directory(DotDot), Directory(DirA), File(FileE, 2),
                   File(FileF, 0)>>
          [] p = <<Slash>> \o DirA ->
                 <<Directory(<<".">>), Directory(DotDot), File(FileE, 1), Directory(DirB)>>
          [] OTHER -> <<Directory(<<".">>), Directory(DotDot)>>]

\* the local file system: what read_dir yields for each directory
LocalFs ==
    [p \in {RootPath, <<Slash>> \o DirA, <<Slash>> \o DirA \o <<Slash>> \o DirB} |->
        CASE p = RootPath -> <<File(FileF, 1), Directory(DirA)>>
          [] p = <<Slash>> \o DirA -> <<Directory(DirB), File(FileE, 3), File(FileF, 2)>>
          [] OTHER -> <<>>]

\* PathBuf::join(name) / the format! of open_remote_selected: one separator
\* between the path and the name
PathJoin(p, name) ==
    IF EndsWith(p, Slash) THEN p \o name ELSE p \o <<Slash>> \o name

\* Path::parent: the path without its last component, None for the root
LocalParent(p) ==
    IF p = RootPath THEN None
    ELSE LET parts == Split(p, Slash)
             front == SubSeq(parts, 1, Len(parts) - 1)
         IN  Some(IF Len(front) = 1 THEN RootPath ELSE Join(front, Slash))

\* the join of open_remote_selected as a bug would have it: no case for the root
RemoteParentNoRoot(p) ==
    IF p # RootPath
    THEN LET parts == Split(TrimEndMatches(p, Slash), Slash)
         IN  IF Len(parts) > 1 THEN Join(SubSeq(parts, 1, Len(parts) - 1), Slash) ELSE p
    ELSE p

\* open_remote_selected 49-62: the remote path after ".."
RemoteParent(p) ==
    IF p # RootPath
    THEN LET parts == Split(TrimEndMatches(p, Slash), Slash)
         IN  IF Len(parts) > 1
             THEN LET popped == SubSeq(parts, 1, Len(parts) - 1)
                  IN  IF Len(popped) = 1 THEN RootPath ELSE Join(popped, Slash)
             ELSE p
    ELSE p

\* read_remote_directory 131-186: the items for the lines `ls -la` printed
RemoteItems(path, lines) ==
    LET parent == IF path # RootPath THEN <<Directory(DotDot)>> ELSE <<>>
        listed == SelectSeq(lines, LAMBDA e : e.name # <<".">> /\ e.name # DotDot)
    IN  SortItems(parent \o listed)

\* read_local_directory 72-119: the items for the entries read_dir yielded
LocalItems(path, entries) ==
    LET parent == IF LocalParent(path) # None THEN <<Directory(DotDot)>> ELSE <<>>
    IN  SortItems(parent \o entries)

\* read_remote_directory: [ok, items]; the ssh command fails, or ls does
ReadRemoteDirectory(path, ok) ==
    IF ~ok \/ path \notin DOMAIN RemoteFs
    THEN [ok |-> FALSE, items |-> <<>>]
    ELSE [ok |-> TRUE, items |-> RemoteItems(path, RemoteFs[path])]

\* read_local_directory: [ok, items]
ReadLocalDirectory(path, ok) ==
    IF ~ok \/ path \notin DOMAIN LocalFs
    THEN [ok |-> FALSE, items |-> <<>>]
    ELSE [ok |-> TRUE, items |-> LocalItems(path, LocalFs[path])]

\* the clamp of refresh_local / refresh_remote (saturating_sub)
ClampSelected(selected, files) ==
    IF selected >= Len(files) THEN (IF Len(files) = 0 THEN 0 ELSE Len(files) - 1)
    ELSE selected

\* refresh_local on the Transfer Session s: [ok, s]
RefreshLocal(s, ok) ==
    LET read == ReadLocalDirectory(s.local_current_path, ok)
    IN  IF ~read.ok THEN [ok |-> FALSE, s |-> s]
        ELSE [ok |-> TRUE,
              s |-> [s EXCEPT !.local_files = read.items,
                              !.local_selected = ClampSelected(s.local_selected, read.items)]]

\* refresh_remote line 8: the status set before the ssh command is run
RefreshRemoteStart(s) == [s EXCEPT !.status_message = Some(<<"Loading remote directory...">>)]

\* refresh_remote as a bug would have it: the listing is emptied before it is read
RefreshRemoteEndClearing(s, ok) ==
    LET read == ReadRemoteDirectory(s.remote_current_path, ok)
    IN  IF ~read.ok THEN [ok |-> FALSE, s |-> [s EXCEPT !.remote_files = <<>>]]
        ELSE [ok |-> TRUE,
              s |-> [s EXCEPT !.remote_files = read.items,
                              !.remote_selected = ClampSelected(s.remote_selected, read.items),
                              !.status_message = None]]

\* refresh_remote lines 9-19, the ssh command having ended: [ok, s]
RefreshRemoteEnd(s, ok) ==
    LET read == ReadRemoteDirectory(s.remote_current_path, ok)
    IN  IF ~read.ok THEN [ok |-> FALSE, s |-> s]
        ELSE [ok |-> TRUE,
              s |-> [s EXCEPT !.remote_files = read.items,
                              !.remote_selected = ClampSelected(s.remote_selected, read.items),
                              !.status_message = None]]

\* refresh_remote as one call
RefreshRemote(s, ok) == RefreshRemoteEnd(RefreshRemoteStart(s), ok)

\* open_local_selected (its Result is dropped by open_selected)
OpenLocalSelected(s, ok) ==
    LET item == Get(s.local_files, s.local_selected)
    IN  IF item = None \/ item[1].kind = "File" THEN s
        ELSE LET path == IF item[1].name = DotDot
                         THEN (IF LocalParent(s.local_current_path) # None
                               THEN LocalParent(s.local_current_path)[1]
                               ELSE s.local_current_path)
                         ELSE PathJoin(s.local_current_path, item[1].name)
             IN  RefreshLocal([s EXCEPT !.local_current_path = path, !.local_selected = 0],
                              ok).s

\* open_remote_selected 44-72, up to the call of refresh_remote: [s, refresh]
OpenRemoteSelectedPath(s) ==
    LET item == Get(s.remote_files, s.remote_selected)
    IN  IF item = None \/ item[1].kind = "File" THEN [s |-> s, refresh |-> FALSE]
        ELSE LET path == IF item[1].name = DotDot
                         THEN RemoteParent(s.remote_current_path)
                         ELSE PathJoin(s.remote_current_path, item[1].name)
             IN  [s |-> [s EXCEPT !.remote_current_path = path, !.remote_selected = 0],
                  refresh |-> TRUE]

\* navigate_up / navigate_down
NavigateUp(s) ==
    IF s.active_panel = "Local"
    THEN [s EXCEPT !.local_selected =
                       IF @ > 0 THEN @ - 1
                       ELSE IF s.local_files # <<>> THEN Len(s.local_files) - 1 ELSE @]
    ELSE [s EXCEPT !.remote_selected =
                       IF @ > 0 THEN @ - 1
                       ELSE IF s.remote_files # <<>> THEN Len(s.remote_files) - 1 ELSE @]

NavigateDown(s) ==
    IF s.active_panel = "Local"
    THEN [s EXCEPT !.local_selected = IF @ + 1 < Len(s.local_files) THEN @ + 1 ELSE 0]
    ELSE [s EXCEPT !.remote_selected = IF @ + 1 < Len(s.remote_files) THEN @ + 1 ELSE 0]

\* AppSftpState::switch_panel
SftpSwitchPanel(s) ==
    [s EXCEPT !.active_panel = IF @ = "Local" THEN "Remote" ELSE "Local"]

\* AppSftpState::set_status_message
SetSftpStatus(s, msg) == [s EXCEPT !.status_message = Some(msg)]

\* std::env::current_dir() of the process
CurrentDir == <<Slash>> \o DirA

\* ------------------------------------------------------------------ state

VARIABLES
    \* App (app/types.rs)
    should_quit, hosts, selected_host, selected_group, active_panel, input_mode,
    status_message, is_connecting, connecting_host, ssh_ready_for_terminal,
    ssh_receiver, is_sftp_loading, sftp_ready_for_terminal, sftp_receiver,
    sftp_state, search_query, filtered_hosts, search_selected, groups,
    hosts_in_current_group,
    \* run_app: the statement the main loop is at, and its needs_redraw
    main_pc, needs_redraw,
    \* the physical terminal: [raw_mode, alt_screen]
    terminal,
    \* the SSH worker threads and their channels, by session
    ssh_worker, ssh_chan,
    \* the SFTP worker threads and their channels, by session
    sftp_worker, sftp_chan,
    \* the files on disk, and how often they were edited
    system_src, custom_src, edits,
    \* history: the contents of the two files at the last call of load_all_hosts,
    \* and whether that call returned Ok
    last_load,
    \* history: the events each SSH worker sent, and the ones the main loop received
    ssh_sent, ssh_observed,
    \* the transfer tasks, and the channel from them to the main loop
    transfers, transfer_chan,
    \* history: by task, the last progress event the main loop received, and how
    \* the main loop saw the transfer end
    transfer_observed,
    \* one call of read_local_directory or read_remote_directory: its arguments,
    \* what the directory holds, and the items it returned
    listing

regVars == <<hosts, groups, selected_group, selected_host, hosts_in_current_group,
             filtered_hosts, search_selected, search_query>>
sshVars == <<is_connecting, connecting_host, ssh_ready_for_terminal, ssh_receiver>>
sftpVars == <<is_sftp_loading, sftp_ready_for_terminal, sftp_receiver, sftp_state>>
sshThreadVars == <<ssh_worker, ssh_chan, ssh_sent>>
sftpThreadVars == <<sftp_worker, sftp_chan>>
envVars == <<system_src, custom_src, edits, last_load>>
xferVars == <<transfers, transfer_chan, transfer_observed>>

vars == <<should_quit, hosts, selected_host, selected_group, active_panel, input_mode,
          status_message, is_connecting, connecting_host, ssh_ready_for_terminal,
          ssh_receiver, is_sftp_loading, sftp_ready_for_terminal, sftp_receiver,
          sftp_state, search_query, filtered_hosts, search_selected, groups,
          hosts_in_current_group, main_pc, needs_redraw, terminal, ssh_worker,
          ssh_chan, sftp_worker, sftp_chan, system_src, custom_src, edits,
          last_load, ssh_sent, ssh_observed, transfers, transfer_chan,
          transfer_observed, listing>>

Sessions == 1..MaxSessions
SftpSessions == 1..MaxSftp
Tasks == 1..MaxTransfers

\* a task that was not spawned.  pc is the statement the task is at; src is the
\* size of the file to copy (None: there is no such file); total, done and
\* elapsed are total_size, uploaded / last_size and start_time.elapsed(); dest
\* is the size of the download's local file (None: no such file); child is the
\* scp process; result is what sftp_upload / sftp_download returned.
\* emitted (history) is the bytes_done of the last call of the progress closure
NoTask ==
    [pc |-> "none", kind |-> "Upload", name |-> <<>>, src |-> None, total |-> 0,
     done |-> 0, elapsed |-> 0, dest |-> None, child |-> "none", result |-> None,
     emitted |-> None]

NotObserved == [progress |-> None, ended |-> "none"]

\* no call of read_local_directory or read_remote_directory under observation
NoListing == [side |-> "none", path |-> <<>>, entries |-> <<>>, result |-> None]

\* the registry fields of App as one record, and their assignment
Registry ==
    [hosts |-> hosts, groups |-> groups, selected_group |-> selected_group,
     selected_host |-> selected_host, hosts_in_current_group |-> hosts_in_current_group,
     filtered_hosts |-> filtered_hosts, search_selected |-> search_selected,
     search_query |-> search_query, ok |-> TRUE]

SetRegistry(r) ==
    /\ hosts' = r.hosts
    /\ groups' = r.groups
    /\ selected_group' = r.selected_group
    /\ selected_host' = r.selected_host
    /\ hosts_in_current_group' = r.hosts_in_current_group
    /\ filtered_hosts' = r.filtered_hosts
    /\ search_selected' = r.search_selected
    /\ search_query' = r.search_query

Event(kind, msg) == [kind |-> kind, msg |-> msg]

IdleWorker == [pc |-> "none", host |-> None, probe |-> None]

\* main: the terminal after enable_raw_mode, EnterAlternateScreen
UiTerminal == [raw_mode |-> TRUE, alt_screen |-> TRUE]

\* App::new (App::default, then load_all_hosts) and main's terminal setup, with
\* the two files as given; a failed load_all_hosts aborts the start
InitRegistry(sys, cust) ==
    LET r == LoadAllHosts(DefaultRegistry, sys, cust)
    IN  /\ r.ok
        /\ system_src = sys
        /\ custom_src = cust
        /\ edits = 0
        /\ last_load = [sys |-> sys, cust |-> cust, ok |-> TRUE]
        /\ hosts = r.hosts
        /\ groups = r.groups
        /\ selected_group = r.selected_group
        /\ selected_host = r.selected_host
        /\ hosts_in_current_group = r.hosts_in_current_group
        /\ filtered_hosts = r.filtered_hosts
        /\ search_selected = r.search_selected
        /\ search_query = r.search_query

\* the rest of App::default, main's terminal setup, and no thread spawned yet
InitIdle ==
        /\ should_quit = FALSE
        /\ active_panel = "Groups"
        /\ input_mode = "Normal"
        /\ status_message = None
        /\ is_connecting = FALSE
        /\ connecting_host = None
        /\ ssh_ready_for_terminal = FALSE
        /\ ssh_receiver = None
        /\ is_sftp_loading = FALSE
        /\ sftp_ready_for_terminal = FALSE
        /\ sftp_receiver = None
        /\ sftp_state = None
        /\ main_pc = "events"
        /\ needs_redraw = FALSE
        /\ terminal = UiTerminal
        /\ ssh_worker = [w \in Sessions |-> IdleWorker]
        /\ ssh_chan = [w \in Sessions |-> <<>>]
        /\ sftp_worker = [w \in SftpSessions |-> IdleWorker]
        /\ sftp_chan = [w \in SftpSessions |-> <<>>]
        /\ ssh_sent = [w \in Sessions |-> <<>>]
        /\ ssh_observed = [w \in Sessions |-> <<>>]
        /\ transfers = [t \in Tasks |-> NoTask]
        /\ transfer_chan = <<>>
        /\ transfer_observed = [t \in Tasks |-> NotObserved]

InitWith(sys, cust) == InitRegistry(sys, cust) /\ InitIdle /\ listing = NoListing

\* the files of the scenario the session lifecycle is checked on
ScenarioSystem ==
    [state |-> "ok",
     hosts |-> <<Host(Web1, <<"1", "0">>, <<"u">>, Some(22), None),
                 Host(Db1, <<>>, <<"r">>, Some(22), None)>>]

ScenarioCustom ==
    [state |-> "ok",
     hosts |-> <<Host(Web1, <<"1", "0">>, <<"a">>, Some(22), Some("Prod")),
                 Host(App1, <<"1", "1">>, <<"a">>, Some(2222), Some("Dev"))>>]

Init == InitWith(ScenarioSystem, ScenarioCustom)

\* run_app has returned (Ok on quit, Err on a propagated error): the process exits
Stopped == {"exited", "aborted"}
Running == main_pc \notin Stopped

\* --------------------------------------------------------------- terminal

TransitionOutcomes == {"ok", "raw_mode_failed", "screen_failed", "cursor_failed"}

\* transition_to_ssh_mode: the terminal after it; each step's ? returns early
TransitionToSshMode(t, outcome) ==
    CASE outcome = "raw_mode_failed" -> t
      [] outcome = "screen_failed" -> [t EXCEPT !.raw_mode = FALSE]
      [] OTHER -> [raw_mode |-> FALSE, alt_screen |-> FALSE]

RestoreOutcomes == {"ok", "raw_mode_failed", "screen_failed", "clear_failed"}

\* restore_tui_mode: the terminal after it; each step's ? returns early
RestoreTuiMode(t, outcome) ==
    CASE outcome = "raw_mode_failed" -> t
      [] outcome = "screen_failed" -> [t EXCEPT !.raw_mode = TRUE]
      [] OTHER -> [raw_mode |-> TRUE, alt_screen |-> TRUE]

\* --------------------------------------------------------------- channels

\* try_recv as a bug would have it: the event read but left in the queue
TryRecvPeek(q) == [event |-> Head(q), rest |-> q]

\* try_recv as a bug would have it: the newest event first
TryRecvNewest(q) == [event |-> q[Len(q)], rest |-> SubSeq(q, 1, Len(q) - 1)]

\* Receiver::try_recv on a non-empty queue: the event received and the queue left
TryRecv(q) == [event |-> Head(q), rest |-> Tail(q)]

\* the receiver of session w's SSH channel is still held by the App
SshReceiverAlive(w) == ssh_receiver = Some(w)

\* the receiver of session w's SFTP channel is still held by the App
SftpReceiverAlive(w) == sftp_receiver = Some(w)

\* ----------------------------------------------------- process_ssh_events

\* the Error branch as a bug would have it: the connecting flag left set
SshErrorFlagsStuck ==
    [is_connecting |-> is_connecting, ssh_ready_for_terminal |-> FALSE, ssh_receiver |-> None]

\* the Error branch as a bug would have it: the receiver kept
SshErrorFlagsReceiverKept ==
    [is_connecting |-> FALSE, ssh_ready_for_terminal |-> FALSE, ssh_receiver |-> ssh_receiver]

\* process_ssh_events 357-359: the session flags after Error
SshErrorFlags ==
    [is_connecting |-> FALSE, ssh_ready_for_terminal |-> FALSE, ssh_receiver |-> None]

\* process_ssh_events; res is what it returns: "false", "true", or "err" when
\* the ? of a terminal-mode change propagates
ProcessSshEvents(res) ==
    IF ssh_receiver # None /\ ssh_chan[ssh_receiver[1]] # <<>>
    THEN LET w == ssh_receiver[1]
             got == TryRecv(ssh_chan[w])
             event == got.event
         IN  /\ ssh_chan' = [ssh_chan EXCEPT ![w] = got.rest]
             /\ ssh_observed' = [ssh_observed EXCEPT ![w] = Append(@, event.kind)]
             /\ CASE event.kind = "Connecting" ->
                       /\ status_message' = Some(<<"Testing connection...">>)
                       /\ res = "false"
                       /\ UNCHANGED <<sshVars, terminal>>
                  [] event.kind = "Connected" ->
                       /\ status_message' = Some(<<"Connection successful! Launching SSH...">>)
                       /\ \E outcome \in TransitionOutcomes :
                            /\ terminal' = TransitionToSshMode(terminal, outcome)
                            /\ IF outcome = "ok"
                               THEN /\ ssh_ready_for_terminal' = TRUE
                                    /\ res = "false"
                               ELSE /\ res = "err"
                                    /\ UNCHANGED ssh_ready_for_terminal
                       /\ UNCHANGED <<is_connecting, connecting_host, ssh_receiver>>
                  [] event.kind = "Error" ->
                       /\ is_connecting' = SshErrorFlags.is_connecting
                       /\ ssh_ready_for_terminal' = SshErrorFlags.ssh_ready_for_terminal
                       /\ ssh_receiver' = SshErrorFlags.ssh_receiver
                       /\ status_message' = Some(<<"SSH Error: ">> \o event.msg)
                       /\ res = "false"
                       /\ UNCHANGED <<connecting_host, terminal>>
                  [] OTHER ->
                       \E outcome \in RestoreOutcomes :
                            /\ terminal' = RestoreTuiMode(terminal, outcome)
                            /\ IF outcome = "ok"
                               THEN /\ is_connecting' = FALSE
                                    /\ ssh_ready_for_terminal' = FALSE
                                    /\ ssh_receiver' = None
                                    /\ status_message' = Some(<<"SSH session ended">>)
                                    /\ res = "true"
                               ELSE /\ res = "err"
                                    /\ UNCHANGED <<is_connecting, ssh_ready_for_terminal,
                                                   ssh_receiver, status_message>>
                            /\ UNCHANGED connecting_host
    ELSE /\ res = "false"
         /\ UNCHANGED <<ssh_chan, ssh_observed, status_message, sshVars, terminal>>

\* ---------------------------------------------------- process_sftp_events

\* process_sftp_events (it has no failing step; its result is not used)
ProcessSftpEvents ==
    IF sftp_receiver # None /\ sftp_chan[sftp_receiver[1]] # <<>>
    THEN LET w == sftp_receiver[1]
             got == TryRecv(sftp_chan[w])
             event == got.event
         IN  /\ sftp_chan' = [sftp_chan EXCEPT ![w] = got.rest]
             /\ CASE event.kind = "PreConnected" ->
                       /\ sftp_state' = Some(event.msg)
                       /\ input_mode' = "Sftp"
                       /\ status_message' = Some(<<"SFTP mode active for ">> \o event.msg.ssh_host)
                       /\ UNCHANGED <<is_sftp_loading, sftp_ready_for_terminal, sftp_receiver>>
                  [] event.kind = "Connecting" ->
                       /\ status_message' = Some(<<"Testing connection...">>)
                       /\ UNCHANGED <<sftpVars, input_mode>>
                  [] event.kind = "Connected" ->
                       /\ status_message' = Some(<<"Connection successful! Launching SFTP...">>)
                       /\ sftp_ready_for_terminal' = TRUE
                       /\ UNCHANGED <<is_sftp_loading, sftp_receiver, sftp_state, input_mode>>
                  [] event.kind = "Error" ->
                       /\ is_sftp_loading' = FALSE
                       /\ sftp_ready_for_terminal' = FALSE
                       /\ sftp_receiver' = None
                       /\ status_message' = Some(<<"SFTP Error: ">> \o event.msg)
                       /\ UNCHANGED <<sftp_state, input_mode>>
                  [] OTHER ->
                       /\ is_sftp_loading' = FALSE
                       /\ sftp_ready_for_terminal' = FALSE
                       /\ sftp_receiver' = None
                       /\ status_message' = Some(<<"SFTP session ended">>)
                       /\ UNCHANGED <<sftp_state, input_mode>>
    ELSE UNCHANGED <<sftp_chan, sftpVars, input_mode, status_message>>

\* ------------------------------------------------ process_transfer_events

\* TransferEvent; task is the task that sent it (the Rust value has no such field)
TransferEvent(kind, task, name, bytes, total, msg) ==
    [kind |-> kind, task |-> task, name |-> name, bytes |-> bytes, total |-> total,
     msg |-> msg]

\* the events applied as a bug would have it: Complete lists nothing again
ApplyTransferEventNoRefresh(s, e, ok) ==
    CASE e.kind = "UploadProgress" ->
             [s EXCEPT !.upload_progress =
                 Some([file_name |-> e.name, uploaded_size |-> e.bytes,
                       total_size |-> e.total])]
      [] e.kind = "DownloadProgress" ->
             [s EXCEPT !.download_progress =
                 Some([file_name |-> e.name, downloaded_size |-> e.bytes,
                       total_size |-> e.total])]
      [] e.kind = "UploadComplete" -> [s EXCEPT !.upload_progress = None]
      [] e.kind = "DownloadComplete" -> [s EXCEPT !.download_progress = None]
      [] e.kind = "UploadError" ->
             SetSftpStatus([s EXCEPT !.upload_progress = None], e.msg)
      [] OTHER -> SetSftpStatus([s EXCEPT !.download_progress = None], e.msg)

\* one event applied to the Transfer Session: a progress event fills the one
\* slot of its direction; Complete empties the slot of its file and has the
\* destination side listed again; Error empties it and becomes the status text
ApplyTransferEvent(s, e, ok) ==
    CASE e.kind = "UploadProgress" ->
             [s EXCEPT !.upload_progress =
                 Some([file_name |-> e.name, uploaded_size |-> e.bytes,
                       total_size |-> e.total])]
      [] e.kind = "DownloadProgress" ->
             [s EXCEPT !.download_progress =
                 Some([file_name |-> e.name, downloaded_size |-> e.bytes,
                       total_size |-> e.total])]
      [] e.kind \in {"UploadComplete", "UploadError"} ->
             LET cleared == IF s.upload_progress # None
                                /\ s.upload_progress[1].file_name = e.name
                            THEN [s EXCEPT !.upload_progress = None] ELSE s
             IN  IF e.kind = "UploadComplete" THEN RefreshRemote(cleared, ok).s
                 ELSE SetSftpStatus(cleared, e.msg)
      [] OTHER ->
             LET cleared == IF s.download_progress # None
                                /\ s.download_progress[1].file_name = e.name
                            THEN [s EXCEPT !.download_progress = None] ELSE s
             IN  IF e.kind = "DownloadComplete" THEN RefreshLocal(cleared, ok).s
                 ELSE SetSftpStatus(cleared, e.msg)

RECURSIVE ApplyTransferEvents(_, _, _)
ApplyTransferEvents(s, evs, ok) ==
    IF evs = <<>> THEN s
    ELSE ApplyTransferEvents(ApplyTransferEvent(s, Head(evs), ok), Tail(evs), ok)

\* history: what the main loop has seen of each task after these events
RECURSIVE ObserveTransferEvents(_, _)
ObserveTransferEvents(obs, evs) ==
    IF evs = <<>> THEN obs
    ELSE LET e == Head(evs)
             seen == CASE e.kind \in {"UploadProgress", "DownloadProgress"} ->
                              [obs[e.task] EXCEPT !.progress = Some(<<e.bytes, e.total>>)]
                       [] e.kind \in {"UploadComplete", "DownloadComplete"} ->
                              [obs[e.task] EXCEPT !.ended = "complete"]
                       [] OTHER -> [obs[e.task] EXCEPT !.ended = "error"]
         IN  ObserveTransferEvents([obs EXCEPT ![e.task] = seen], Tail(evs))

\* process_transfer_events: the events waiting in the channel are taken with
\* try_recv, in the order they were sent, and applied; it never waits
ProcessTransferEvents ==
    /\ transfer_chan' = <<>>
    /\ transfer_observed' = ObserveTransferEvents(transfer_observed, transfer_chan)
    /\ IF sftp_state = None \/ transfer_chan = <<>>
       THEN UNCHANGED sftp_state
       ELSE \E ok \in BOOLEAN :
                sftp_state' = Some(ApplyTransferEvents(sftp_state[1], transfer_chan, ok))

\* ----------------------------------------------------------------- run_app

\* line 123: process_ssh_events at the head of the loop
MainProcessSshEvents ==
    /\ main_pc = "events"
    /\ \E res \in {"false", "true", "err"} :
         /\ ProcessSshEvents(res)
         /\ IF res = "err"
            THEN main_pc' = "aborted" /\ UNCHANGED needs_redraw
            ELSE main_pc' = "sftp_events" /\ needs_redraw' = (res = "true")
    /\ UNCHANGED <<should_quit, regVars, active_panel, input_mode, sftpVars,
                   ssh_worker, ssh_sent, sftpThreadVars, envVars, xferVars, listing>>

\* line 126: process_sftp_events
MainProcessSftpEvents ==
    /\ main_pc = "sftp_events"
    /\ ProcessSftpEvents
    /\ main_pc' = "transfer_events"
    /\ UNCHANGED <<should_quit, regVars, active_panel, sshVars, needs_redraw, terminal,
                   sshThreadVars, sftp_worker, envVars, xferVars, ssh_observed, listing>>

\* lines 128-131: process_transfer_events, then the branch on
\* ssh_ready_for_terminal
MainProcessTransferEvents ==
    /\ main_pc = "transfer_events"
    /\ ProcessTransferEvents
    /\ main_pc' = IF ssh_ready_for_terminal THEN "suspended" ELSE "draw"
    /\ UNCHANGED <<should_quit, regVars, active_panel, input_mode, status_message, sshVars,
                   is_sftp_loading, sftp_ready_for_terminal, sftp_receiver, needs_redraw,
                   terminal, sshThreadVars, sftpThreadVars, envVars, transfers,
                   ssh_observed, listing>>

\* lines 135-145: one round of the inner loop that waits for the session's end
MainSuspended ==
    /\ main_pc = "suspended"
    /\ \E res \in {"false", "true", "err"} :
         /\ ProcessSshEvents(res)
         /\ main_pc' = IF res = "err" THEN "aborted"
                       ELSE IF res = "true" \/ ~ssh_ready_for_terminal' THEN "resume_draw"
                       ELSE "suspended"
    /\ UNCHANGED <<should_quit, regVars, active_panel, input_mode, sftpVars, needs_redraw,
                   ssh_worker, ssh_sent, sftpThreadVars, envVars, xferVars, listing>>

\* line 148: the draw after the inner loop, then continue
MainResumeDraw ==
    /\ main_pc = "resume_draw"
    /\ main_pc' = "events"
    /\ UNCHANGED <<should_quit, regVars, active_panel, input_mode, status_message, sshVars,
                   sftpVars, needs_redraw, terminal, sshThreadVars, sftpThreadVars,
                   envVars, xferVars, ssh_observed, listing>>

\* line 153: the draw of every ordinary round
MainDraw ==
    /\ main_pc = "draw"
    /\ main_pc' = "poll"
    /\ UNCHANGED <<should_quit, regVars, active_panel, input_mode, status_message, sshVars,
                   sftpVars, needs_redraw, terminal, sshThreadVars, sftpThreadVars,
                   envVars, xferVars, ssh_observed, listing>>

\* the key guard as a bug would have it: is_connecting not looked at
KeysHandledWhileConnecting == ~ssh_ready_for_terminal

\* lines 174-176: a key press is handed to handle_key_events
KeysHandled == ~is_connecting /\ ~ssh_ready_for_terminal

\* lines 171-181: the poll times out, or reads an event that is no key press, or
\* reads a key press that is dropped
MainPollNoKey ==
    /\ main_pc = "poll"
    /\ main_pc' = "quit_check"
    /\ UNCHANGED <<should_quit, regVars, active_panel, input_mode, status_message, sshVars,
                   sftpVars, needs_redraw, terminal, sshThreadVars, sftpThreadVars,
                   envVars, xferVars, ssh_observed, listing>>

\* lines 183-199: return on should_quit, else the forced redraw
MainQuitCheck ==
    /\ main_pc = "quit_check"
    /\ main_pc' = IF should_quit THEN "exited"
                  ELSE IF needs_redraw THEN "redraw" ELSE "events"
    /\ UNCHANGED <<should_quit, regVars, active_panel, input_mode, status_message, sshVars,
                   sftpVars, needs_redraw, terminal, sshThreadVars, sftpThreadVars,
                   envVars, xferVars, ssh_observed, listing>>

\* line 189: the forced redraw.  needs_redraw is set only by a Disconnected
\* processed at line 123, and Disconnected follows a Connected that was processed
\* there and sent the loop into lines 135-145, where the Disconnected is
\* processed instead: no specification below takes this step
MainRedraw ==
    /\ main_pc = "redraw"
    /\ main_pc' = "events"
    /\ UNCHANGED <<should_quit, regVars, active_panel, input_mode, status_message, sshVars,
                   sftpVars, needs_redraw, terminal, sshThreadVars, sftpThreadVars,
                   envVars, xferVars, ssh_observed, listing>>

\* ------------------------------------------------------------ key handlers


\* get_current_selected_host
GetCurrentSelectedHost ==
    CASE input_mode = "Normal" ->
             LET idx == Get(hosts_in_current_group, selected_host)
             IN  IF idx = None THEN None ELSE Get(hosts, idx[1])
      [] input_mode = "Search" ->
             LET idx == Get(filtered_hosts, search_selected)
             IN  IF idx = None THEN None ELSE Get(hosts, idx[1])
      [] OTHER -> None

\* the sessions no thread was spawned for yet
FreeSessions == {w \in Sessions : ssh_worker[w].pc = "none"}
FreeSftpSessions == {w \in SftpSessions : sftp_worker[w].pc = "none"}

\* handle_key_enter: with a host selected, a new channel, the connecting flags
\* and a new SSH worker thread (the draw that follows changes no state)
HandleKeyEnter ==
    LET sel == GetCurrentSelectedHost
    IN  IF sel = None
        THEN UNCHANGED <<sshVars, status_message, ssh_worker>>
        ELSE /\ FreeSessions # {}
             /\ LET w == Min(FreeSessions)
                IN  /\ connecting_host' = sel
                    /\ ssh_receiver' = Some(w)
                    /\ is_connecting' = TRUE
                    /\ ssh_ready_for_terminal' = FALSE
                    /\ status_message' = Some(<<"Connecting to ">> \o sel[1].alias \o <<"...">>)
                    /\ ssh_worker' = [ssh_worker EXCEPT
                                         ![w] = [pc |-> "start", host |-> sel, probe |-> None]]

\* enter_sftp_mode: with a host selected, a new channel, the loading flags and a
\* new SFTP worker thread (the draw that follows changes no state)
EnterSftpMode ==
    LET sel == GetCurrentSelectedHost
    IN  IF sel = None
        THEN UNCHANGED <<sftpVars, status_message, sftp_worker>>
        ELSE /\ FreeSftpSessions # {}
             /\ LET w == Min(FreeSftpSessions)
                IN  /\ sftp_receiver' = Some(w)
                    /\ is_sftp_loading' = TRUE
                    /\ sftp_ready_for_terminal' = TRUE
                    /\ status_message' = Some(<<"Initializing SFTP for ">> \o sel[1].alias \o <<"...">>)
                    /\ sftp_worker' = [sftp_worker EXCEPT
                                          ![w] = [pc |-> "start", host |-> sel, probe |-> None]]
                    /\ UNCHANGED sftp_state

\* select_next on the registry record
SelectNext(r, panel) ==
    IF panel = "Groups"
    THEN IF r.groups = <<>> THEN r
         ELSE UpdateHostsForSelectedGroup(
                  [r EXCEPT !.selected_group = (r.selected_group + 1) % Len(r.groups)])
    ELSE IF r.hosts_in_current_group = <<>> THEN r
         ELSE [r EXCEPT !.selected_host =
                            (r.selected_host + 1) % Len(r.hosts_in_current_group)]

\* select_previous on the registry record
SelectPrevious(r, panel) ==
    IF panel = "Groups"
    THEN IF r.groups = <<>> THEN r
         ELSE UpdateHostsForSelectedGroup(
                  [r EXCEPT !.selected_group =
                                (r.selected_group + Len(r.groups) - 1) % Len(r.groups)])
    ELSE IF r.hosts_in_current_group = <<>> THEN r
         ELSE [r EXCEPT !.selected_host =
                            (r.selected_host + Len(r.hosts_in_current_group) - 1)
                                % Len(r.hosts_in_current_group)]

\* next_group on the registry record
NextGroup(r) ==
    IF r.groups = <<>> THEN r
    ELSE [UpdateHostsForSelectedGroup(
              [r EXCEPT !.selected_group = (r.selected_group + 1) % Len(r.groups)])
          EXCEPT !.selected_host = 0]

\* previous_group on the registry record
PreviousGroup(r) ==
    IF r.groups = <<>> THEN r
    ELSE [UpdateHostsForSelectedGroup(
              [r EXCEPT !.selected_group =
                            (r.selected_group + Len(r.groups) - 1) % Len(r.groups)])
          EXCEPT !.selected_host = 0]

\* clear_search on the registry record (input_mode becomes Normal beside it)
ClearSearch(r) ==
    [r EXCEPT !.search_query = <<>>,
              !.filtered_hosts = [i \in 1..Len(r.hosts) |-> i - 1],
              !.search_selected = 0,
              !.selected_host = IF r.selected_host = 0 THEN 0 ELSE r.selected_host - 1]

\* search_select_next as a bug would have it: no wrap at the end
SearchSelectNextNoWrap(r) ==
    IF r.filtered_hosts = <<>> THEN r
    ELSE [r EXCEPT !.search_selected = r.search_selected + 1]

\* search_select_next on the registry record
SearchSelectNext(r) ==
    IF r.filtered_hosts = <<>> THEN r
    ELSE [r EXCEPT !.search_selected =
                       IF r.search_selected >= Len(r.filtered_hosts) - 1 THEN 0
                       ELSE r.search_selected + 1]

\* search_select_previous on the registry record
SearchSelectPrevious(r) ==
    IF r.filtered_hosts = <<>> THEN r
    ELSE [r EXCEPT !.search_selected =
                       IF r.search_selected = 0 THEN Len(r.filtered_hosts) - 1
                       ELSE r.search_selected - 1]

\* a key press reaches handle_key_events in input mode m (main.rs 171-181, 208)
KeyRead(m) ==
    /\ main_pc = "poll"
    /\ KeysHandled
    /\ input_mode = m

\* a key press whose handler returns without waiting for anything
KeyPress(m) ==
    /\ KeyRead(m)
    /\ main_pc' = "quit_check"

\* Normal: 'q' / 'Q'
KeyQuit ==
    /\ KeyPress("Normal")
    /\ should_quit' = TRUE
    /\ UNCHANGED <<regVars, active_panel, input_mode, status_message, sshVars, sftpVars,
                   needs_redraw, terminal, sshThreadVars, sftpThreadVars, envVars, xferVars,
                   ssh_observed, listing>>

\* Normal: Ctrl+C
KeyCtrlC ==
    /\ KeyPress("Normal")
    /\ should_quit' = TRUE
    /\ UNCHANGED <<regVars, active_panel, input_mode, status_message, sshVars, sftpVars,
                   needs_redraw, terminal, sshThreadVars, sftpThreadVars, envVars, xferVars,
                   ssh_observed, listing>>

\* Normal: 's', enter_search_mode
KeySearch ==
    /\ KeyPress("Normal")
    /\ input_mode' = "Search"
    /\ SetRegistry(FilterHosts([Registry EXCEPT !.search_query = <<>>]))
    /\ UNCHANGED <<should_quit, active_panel, status_message, sshVars, sftpVars,
                   needs_redraw, terminal, sshThreadVars, sftpThreadVars, envVars, xferVars,
                   ssh_observed, listing>>

\* Normal: Tab, switch_panel
KeyTab ==
    /\ KeyPress("Normal")
    /\ active_panel' = IF active_panel = "Groups" THEN "Hosts" ELSE "Groups"
    /\ SetRegistry(IF active_panel' = "Hosts" /\ hosts_in_current_group # <<>>
                     /\ selected_host > Len(hosts_in_current_group) - 1
                   THEN [Registry EXCEPT !.selected_host = Len(hosts_in_current_group) - 1]
                   ELSE Registry)
    /\ UNCHANGED <<should_quit, input_mode, status_message, sshVars, sftpVars,
                   needs_redraw, terminal, sshThreadVars, sftpThreadVars, envVars, xferVars,
                   ssh_observed, listing>>

\* Normal: Shift+Tab, previous_group
KeyShiftTab ==
    /\ KeyPress("Normal")
    /\ SetRegistry(PreviousGroup(Registry))
    /\ UNCHANGED <<should_quit, active_panel, input_mode, status_message, sshVars,
                   sftpVars, needs_redraw, terminal, sshThreadVars, sftpThreadVars,
                   envVars, xferVars, ssh_observed, listing>>

\* Normal: Right
KeyRight ==
    /\ KeyPress("Normal")
    /\ SetRegistry(IF active_panel = "Groups" THEN NextGroup(Registry)
                   ELSE SelectNext(Registry, active_panel))
    /\ UNCHANGED <<should_quit, active_panel, input_mode, status_message, sshVars,
                   sftpVars, needs_redraw, terminal, sshThreadVars, sftpThreadVars,
                   envVars, xferVars, ssh_observed, listing>>

\* Normal: Left
KeyLeft ==
    /\ KeyPress("Normal")
    /\ SetRegistry(IF active_panel = "Groups" THEN PreviousGroup(Registry)
                   ELSE SelectPrevious(Registry, active_panel))
    /\ UNCHANGED <<should_quit, active_panel, input_mode, status_message, sshVars,
                   sftpVars, needs_redraw, terminal, sshThreadVars, sftpThreadVars,
                   envVars, xferVars, ssh_observed, listing>>

\* Normal: Up / 'k'
KeyUp ==
    /\ KeyPress("Normal")
    /\ SetRegistry(SelectPrevious(Registry, active_panel))
    /\ UNCHANGED <<should_quit, active_panel, input_mode, status_message, sshVars,
                   sftpVars, needs_redraw, terminal, sshThreadVars, sftpThreadVars,
                   envVars, xferVars, ssh_observed, listing>>

\* Normal: Down / 'j'
KeyDown ==
    /\ KeyPress("Normal")
    /\ SetRegistry(SelectNext(Registry, active_panel))
    /\ UNCHANGED <<should_quit, active_panel, input_mode, status_message, sshVars,
                   sftpVars, needs_redraw, terminal, sshThreadVars, sftpThreadVars,
                   envVars, xferVars, ssh_observed, listing>>

\* Normal: 'f', enter_sftp_mode
KeySftp ==
    /\ KeyPress("Normal")
    /\ EnterSftpMode
    /\ UNCHANGED <<should_quit, regVars, active_panel, input_mode, sshVars, needs_redraw,
                   terminal, sshThreadVars, sftp_chan, envVars, xferVars, ssh_observed, listing>>

\* Normal: Esc, handle_key_esc
KeyEsc ==
    /\ KeyPress("Normal")
    /\ input_mode' = "Normal"
    /\ UNCHANGED <<should_quit, regVars, active_panel, status_message, sshVars, sftpVars,
                   needs_redraw, terminal, sshThreadVars, sftpThreadVars, envVars, xferVars,
                   ssh_observed, listing>>

\* Normal: Enter, handle_key_enter
KeyEnter ==
    /\ KeyPress("Normal")
    /\ HandleKeyEnter
    /\ UNCHANGED <<should_quit, regVars, active_panel, input_mode, sftpVars, needs_redraw,
                   terminal, ssh_chan, ssh_sent, sftpThreadVars, envVars, xferVars, ssh_observed, listing>>

\* Normal: 'r', load_all_hosts and its status line
KeyReload ==
    /\ KeyPress("Normal")
    /\ LET r == LoadAllHosts(Registry, system_src, custom_src)
       IN  /\ SetRegistry(r)
           /\ last_load' = [sys |-> system_src, cust |-> custom_src, ok |-> r.ok]
           /\ status_message' =
                  IF r.ok THEN Some(<<"Config reloaded successfully">>)
                  ELSE Some(<<"Reload failed: ", "Failed to load SSH config">>)
    /\ UNCHANGED <<should_quit, active_panel, input_mode, sshVars, sftpVars, needs_redraw,
                   terminal, sshThreadVars, sftpThreadVars, system_src, custom_src, edits,
                   xferVars, ssh_observed, listing>>

\* Normal: 'e', handle_key_e: the hosts file is created empty when missing (an
\* empty file has no groups table and does not parse), the editor is opened, the
\* hosts are reloaded; an Err becomes the status line
KeyEdit ==
    /\ KeyPress("Normal")
    /\ custom_src' = IF custom_src.state = "missing"
                     THEN [state |-> "malformed", hosts |-> <<>>]
                     ELSE custom_src
    /\ \E opened \in BOOLEAN :
         IF ~opened
         THEN /\ status_message' = Some(<<"Failed to open editor: ", "Failed to open editor: ",
                                          "<open error>">>)
              /\ UNCHANGED <<regVars, last_load>>
         ELSE LET r == LoadAllHosts(Registry, system_src, custom_src')
              IN  /\ SetRegistry(r)
                  /\ last_load' = [sys |-> system_src, cust |-> custom_src', ok |-> r.ok]
                  /\ status_message' =
                         IF r.ok THEN status_message
                         ELSE Some(<<"Failed to open editor: ", "Failed to load SSH config">>)
    /\ UNCHANGED <<should_quit, active_panel, input_mode, sshVars, sftpVars, needs_redraw,
                   terminal, sshThreadVars, sftpThreadVars, system_src, edits, xferVars,
                   ssh_observed, listing>>

\* the characters the user types into the search query
TypedChars == {"w", "A"}

\* Search: a character, pushed to the query, then filter_hosts
KeySearchChar ==
    /\ KeyPress("Search")
    /\ Len(search_query) < MaxQueryLen
    /\ \E c \in TypedChars :
         SetRegistry(FilterHosts([Registry EXCEPT !.search_query = Append(search_query, c)]))
    /\ UNCHANGED <<should_quit, active_panel, input_mode, status_message, sshVars, sftpVars,
                   needs_redraw, terminal, sshThreadVars, sftpThreadVars, envVars, xferVars,
                   ssh_observed, listing>>

\* Search: Backspace / Delete, String::pop, then filter_hosts
KeySearchBackspace ==
    /\ KeyPress("Search")
    /\ SetRegistry(FilterHosts([Registry EXCEPT !.search_query =
                       IF search_query = <<>> THEN <<>>
                       ELSE SubSeq(search_query, 1, Len(search_query) - 1)]))
    /\ UNCHANGED <<should_quit, active_panel, input_mode, status_message, sshVars, sftpVars,
                   needs_redraw, terminal, sshThreadVars, sftpThreadVars, envVars, xferVars,
                   ssh_observed, listing>>

\* Search: Enter, handle_key_enter and then clear_search
KeySearchEnter ==
    /\ KeyPress("Search")
    /\ HandleKeyEnter
    /\ SetRegistry(ClearSearch(Registry))
    /\ input_mode' = "Normal"
    /\ UNCHANGED <<should_quit, active_panel, sftpVars, needs_redraw, terminal, ssh_chan,
                   ssh_sent, sftpThreadVars, envVars, xferVars, ssh_observed, listing>>

\* Search: Esc, clear_search
KeySearchEsc ==
    /\ KeyPress("Search")
    /\ SetRegistry(ClearSearch(Registry))
    /\ input_mode' = "Normal"
    /\ UNCHANGED <<should_quit, active_panel, status_message, sshVars, sftpVars,
                   needs_redraw, terminal, sshThreadVars, sftpThreadVars, envVars, xferVars,
                   ssh_observed, listing>>

\* Search: Up
KeySearchUp ==
    /\ KeyPress("Search")
    /\ SetRegistry(SearchSelectPrevious(Registry))
    /\ UNCHANGED <<should_quit, active_panel, input_mode, status_message, sshVars, sftpVars,
                   needs_redraw, terminal, sshThreadVars, sftpThreadVars, envVars, xferVars,
                   ssh_observed, listing>>

\* Search: Down
KeySearchDown ==
    /\ KeyPress("Search")
    /\ SetRegistry(SearchSelectNext(Registry))
    /\ UNCHANGED <<should_quit, active_panel, input_mode, status_message, sshVars, sftpVars,
                   needs_redraw, terminal, sshThreadVars, sftpThreadVars, envVars, xferVars,
                   ssh_observed, listing>>

\* exit_sftp_mode as a bug would have it: the Transfer Session kept
KeySftpQuitKeepsSession ==
    /\ KeyPress("Sftp")
    /\ sftp_state # None
    /\ input_mode' = "Normal"
    /\ is_sftp_loading' = FALSE
    /\ sftp_ready_for_terminal' = FALSE
    /\ status_message' = Some(<<"Exited SFTP mode">>)
    /\ UNCHANGED <<should_quit, regVars, active_panel, sshVars, sftp_receiver, sftp_state,
                   needs_redraw, terminal, sshThreadVars, sftpThreadVars, envVars, xferVars,
                   ssh_observed, listing>>

\* Sftp: 'q' with a Transfer Session, exit_sftp_mode
KeySftpQuit ==
    /\ KeyPress("Sftp")
    /\ sftp_state # None
    /\ sftp_state' = None
    /\ input_mode' = "Normal"
    /\ is_sftp_loading' = FALSE
    /\ sftp_ready_for_terminal' = FALSE
    /\ status_message' = Some(<<"Exited SFTP mode">>)
    /\ UNCHANGED <<should_quit, regVars, active_panel, sshVars, sftp_receiver, needs_redraw,
                   terminal, sshThreadVars, sftpThreadVars, envVars, xferVars, ssh_observed, listing>>

\* the frame of the keys of handle_sftp_key
SftpKeyUnchanged ==
    UNCHANGED <<should_quit, regVars, active_panel, input_mode, status_message, sshVars,
                is_sftp_loading, sftp_ready_for_terminal, sftp_receiver, needs_redraw,
                terminal, sshThreadVars, sftpThreadVars, envVars, xferVars, ssh_observed, listing>>

\* Sftp: Up
KeySftpUp ==
    /\ KeyPress("Sftp")
    /\ sftp_state # None
    /\ sftp_state' = Some(NavigateUp(sftp_state[1]))
    /\ SftpKeyUnchanged

\* Sftp: Down
KeySftpDown ==
    /\ KeyPress("Sftp")
    /\ sftp_state # None
    /\ sftp_state' = Some(NavigateDown(sftp_state[1]))
    /\ SftpKeyUnchanged

\* Sftp: Tab
KeySftpTab ==
    /\ KeyPress("Sftp")
    /\ sftp_state # None
    /\ sftp_state' = Some(SftpSwitchPanel(sftp_state[1]))
    /\ SftpKeyUnchanged

\* Sftp: Enter or Backspace, open_selected.  On the local panel the directory is
\* read at once; on the remote panel the handler runs the ssh command of
\* read_remote_directory and waits in Command::output for it to end
KeySftpOpen ==
    /\ KeyRead("Sftp")
    /\ sftp_state # None
    /\ IF sftp_state[1].active_panel = "Local"
       THEN /\ \E ok \in BOOLEAN : sftp_state' = Some(OpenLocalSelected(sftp_state[1], ok))
            /\ Len(sftp_state'[1].local_current_path) <= MaxPathLen
            /\ main_pc' = "quit_check"
       ELSE LET open == OpenRemoteSelectedPath(sftp_state[1])
            IN  IF open.refresh
                THEN /\ Len(open.s.remote_current_path) <= MaxPathLen
                     /\ sftp_state' = Some(RefreshRemoteStart(open.s))
                     /\ main_pc' = "remote_ls_open"
                ELSE /\ sftp_state' = sftp_state
                     /\ main_pc' = "quit_check"
    /\ SftpKeyUnchanged

\* Sftp: 'r', refresh_local and then refresh_remote, whose ssh command the
\* handler waits for
KeySftpRefresh ==
    /\ KeyRead("Sftp")
    /\ sftp_state # None
    /\ \E ok \in BOOLEAN :
         LET l == RefreshLocal(sftp_state[1], ok)
             s1 == IF l.ok THEN l.s
                   ELSE SetSftpStatus(l.s, <<"Local refresh error: ",
                                             "Failed to read local directory">>)
         IN  sftp_state' = Some(RefreshRemoteStart(s1))
    /\ main_pc' = "remote_ls_refresh"
    /\ SftpKeyUnchanged

\* the statements at which the UI thread waits for the remote ls to end
RemoteLsPcs == {"remote_ls_open", "remote_ls_refresh"}

\* the ssh command of read_remote_directory ends and the handler returns: the
\* listing is replaced, or the error is dropped (open_selected) or becomes the
\* status (the 'r' key)
MainRemoteLsExit ==
    /\ main_pc \in RemoteLsPcs
    /\ sftp_state # None
    /\ \E ok \in BOOLEAN :
         LET r == RefreshRemoteEnd(sftp_state[1], ok)
         IN  sftp_state' = Some(IF r.ok \/ main_pc = "remote_ls_open" THEN r.s
                                ELSE SetSftpStatus(r.s, <<"Remote refresh error: ",
                                                          "Remote ls failed: ", "<stderr>">>))
    /\ main_pc' = "quit_check"
    /\ SftpKeyUnchanged

\* -------------------------------------------------------- SSH worker thread

\* the stderr texts a failing probe may print: nothing, a message, and a message
\* with whitespace around it (the newline ssh ends its message with)
StderrTexts == {<<>>, <<"x">>, <<" ", "x", " ">>}

\* what the probe command (ssh ... exit) may do
ProbeOutcomes ==
    {[result |-> "ok", stderr |-> <<>>], [result |-> "spawn_error", stderr |-> <<>>]}
        \cup {[result |-> "exit_nonzero", stderr |-> e] :
                  e \in StderrTexts}

\* test_ssh_connection as a bug would have it: stderr not trimmed
TestSshConnectionUntrimmed(outcome) ==
    CASE outcome.result = "ok" -> [ok |-> TRUE, err |-> <<>>]
      [] outcome.result = "spawn_error" ->
             [ok |-> FALSE, err |-> <<"Failed to test SSH connection">>]
      [] OTHER ->
             [ok |-> FALSE, err |-> <<"SSH connection test failed: ">> \o outcome.stderr]

\* test_ssh_connection: [ok, err], err being the error's to_string()
TestSshConnection(outcome) ==
    CASE outcome.result = "ok" -> [ok |-> TRUE, err |-> <<>>]
      [] outcome.result = "spawn_error" ->
             [ok |-> FALSE, err |-> <<"Failed to test SSH connection">>]
      [] OTHER ->
             [ok |-> FALSE, err |-> <<"SSH connection test failed: ">> \o Trim(outcome.stderr)]

\* what the interactive ssh child may do
ChildOutcomes == {"spawn_error", "exit_zero", "exit_nonzero"}

\* execute_ssh_blocking, once the child is gone: [ok, err]
ExecuteSshBlocking(outcome) ==
    CASE outcome = "exit_zero" -> [ok |-> TRUE, err |-> <<>>]
      [] outcome = "spawn_error" -> [ok |-> FALSE, err |-> <<"Failed to execute SSH command">>]
      [] OTHER -> [ok |-> FALSE, err |-> <<"SSH command failed with status: ", "<status>">>]

\* Sender::send of worker w: the event is queued while the receiver lives
SshSend(w, ev) ==
    IF SshReceiverAlive(w)
    THEN /\ ssh_chan' = [ssh_chan EXCEPT ![w] = Append(@, ev)]
         /\ ssh_sent' = [ssh_sent EXCEPT ![w] = Append(@, ev)]
    ELSE UNCHANGED <<ssh_chan, ssh_sent>>

SshWorkerUnchanged ==
    UNCHANGED <<should_quit, regVars, active_panel, input_mode, status_message, sshVars,
                sftpVars, main_pc, needs_redraw, terminal, sftpThreadVars, envVars, xferVars,
                ssh_observed, listing>>

\* ssh_thread_worker 211-218: send Connecting, return when that fails
SshWorkerConnecting(w) ==
    /\ Running
    /\ ssh_worker[w].pc = "start"
    /\ SshSend(w, Event("Connecting", <<>>))
    /\ ssh_worker' = [ssh_worker EXCEPT
                         ![w].pc = IF SshReceiverAlive(w) THEN "probe" ELSE "done"]
    /\ SshWorkerUnchanged

\* ssh_thread_worker 221-228, 246-249: the probe, then Connected and the sleep,
\* or Error and the end of the thread
SshWorkerProbe(w) ==
    /\ Running
    /\ ssh_worker[w].pc = "probe"
    /\ \E outcome \in ProbeOutcomes :
         LET test == TestSshConnection(outcome)
         IN  IF test.ok
             THEN /\ SshSend(w, Event("Connected", <<>>))
                  /\ ssh_worker' = [ssh_worker EXCEPT
                                       ![w].probe = Some(outcome),
                                       ![w].pc = IF SshReceiverAlive(w) THEN "sleep"
                                                 ELSE "done"]
             ELSE /\ SshSend(w, Event("Error", <<"Connection test failed: ">> \o test.err))
                  /\ ssh_worker' = [ssh_worker EXCEPT
                                       ![w].probe = Some(outcome), ![w].pc = "done"]
    /\ SshWorkerUnchanged

\* ssh_thread_worker 228-232: the 200 ms sleep ends and the interactive child is
\* started with the terminal inherited; a failed spawn is the Error of 237-240
SshWorkerLaunch(w) ==
    /\ Running
    /\ ssh_worker[w].pc = "sleep"
    /\ \/ /\ ssh_worker' = [ssh_worker EXCEPT ![w].pc = "exec"]
          /\ UNCHANGED <<ssh_chan, ssh_sent>>
       \/ /\ SshSend(w, Event("Error", ExecuteSshBlocking("spawn_error").err))
          /\ ssh_worker' = [ssh_worker EXCEPT ![w].pc = "done"]
    /\ SshWorkerUnchanged

\* ssh_thread_worker 232-241: the child exits; Disconnected or Error, thread ends
SshWorkerChildExit(w) ==
    /\ Running
    /\ ssh_worker[w].pc = "exec"
    /\ \E outcome \in {"exit_zero", "exit_nonzero"} :
         LET run == ExecuteSshBlocking(outcome)
         IN  SshSend(w, IF run.ok THEN Event("Disconnected", <<>>)
                        ELSE Event("Error", run.err))
    /\ ssh_worker' = [ssh_worker EXCEPT ![w].pc = "done"]
    /\ SshWorkerUnchanged

SshWorkerStep(w) ==
    \/ SshWorkerConnecting(w)
    \/ SshWorkerProbe(w)
    \/ SshWorkerLaunch(w)
    \/ SshWorkerChildExit(w)

\* the thread unwinds (a panic) before its last send: its Sender is dropped
SshWorkerDie(w) ==
    /\ Running
    /\ ssh_worker[w].pc \in {"probe", "sleep", "exec"}
    /\ ssh_worker' = [ssh_worker EXCEPT ![w].pc = "dead"]
    /\ UNCHANGED <<ssh_chan, ssh_sent>>
    /\ SshWorkerUnchanged

\* ------------------------------------------------------- SFTP worker thread

\* AppSftpState::new as a bug would have it: Ok(state) although a listing failed
NewSftpStateUnloaded(host, ok) ==
    LET fresh == [active_panel |-> "Local",
                  local_current_path |-> CurrentDir, local_files |-> <<>>,
                  local_selected |-> 0,
                  remote_current_path |-> RootPath, remote_files |-> <<>>,
                  remote_selected |-> 0,
                  ssh_host |-> host.host, ssh_user |-> host.user,
                  ssh_port |-> IF host.port = None THEN 22 ELSE host.port[1],
                  status_message |-> None,
                  upload_progress |-> None, download_progress |-> None]
    IN  [ok |-> TRUE,
         state |-> RefreshRemote(RefreshLocal(fresh, TRUE).s, ok).s,
         err |-> <<>>]

\* AppSftpState::new as the worker calls it: Ok(state) or Err
NewSftpState(host, ok) ==
    IF ok
    THEN LET fresh == [active_panel |-> "Local",
                       local_current_path |-> CurrentDir, local_files |-> <<>>,
                       local_selected |-> 0,
                       remote_current_path |-> RootPath, remote_files |-> <<>>,
                       remote_selected |-> 0,
                       ssh_host |-> host.host, ssh_user |-> host.user,
                       ssh_port |-> IF host.port = None THEN 22 ELSE host.port[1],
                       status_message |-> None,
                       upload_progress |-> None, download_progress |-> None]
         IN  [ok |-> TRUE,
              state |-> RefreshRemote(RefreshLocal(fresh, TRUE).s, TRUE).s,
              err |-> <<>>]
    ELSE [ok |-> FALSE, state |-> None, err |-> <<"<sftp init error>">>]

\* Sender::send of SFTP worker w
SftpSend(w, ev) ==
    IF SftpReceiverAlive(w)
    THEN sftp_chan' = [sftp_chan EXCEPT ![w] = Append(@, ev)]
    ELSE UNCHANGED sftp_chan

SftpWorkerUnchanged ==
    UNCHANGED <<should_quit, regVars, active_panel, input_mode, status_message, sshVars,
                sftpVars, main_pc, needs_redraw, terminal, sshThreadVars, envVars, xferVars,
                ssh_observed, listing>>

\* sftp_thread_worker 622-629: send Connecting, return when that fails
SftpWorkerConnecting(w) ==
    /\ Running
    /\ sftp_worker[w].pc = "start"
    /\ SftpSend(w, Event("Connecting", <<>>))
    /\ sftp_worker' = [sftp_worker EXCEPT
                          ![w].pc = IF SftpReceiverAlive(w) THEN "new" ELSE "done"]
    /\ SftpWorkerUnchanged

\* sftp_thread_worker 632-640, 651-654: AppSftpState::new, then PreConnected, or
\* Error and the end of the thread
SftpWorkerNew(w) ==
    /\ Running
    /\ sftp_worker[w].pc = "new"
    /\ \E ok \in BOOLEAN :
         LET new == NewSftpState(sftp_worker[w].host[1], ok)
         IN  IF new.ok
             THEN /\ SftpSend(w, Event("PreConnected", new.state))
                  /\ sftp_worker' = [sftp_worker EXCEPT
                                        ![w].pc = IF SftpReceiverAlive(w) THEN "pre_connected"
                                                  ELSE "done"]
             ELSE /\ SftpSend(w, Event("Error", <<"Connection test failed: ">> \o new.err))
                  /\ sftp_worker' = [sftp_worker EXCEPT ![w].pc = "done"]
    /\ SftpWorkerUnchanged

\* sftp_thread_worker 642-649: send Connected, sleep when it was sent
SftpWorkerConnected(w) ==
    /\ Running
    /\ sftp_worker[w].pc = "pre_connected"
    /\ SftpSend(w, Event("Connected", <<>>))
    /\ sftp_worker' = [sftp_worker EXCEPT
                          ![w].pc = IF SftpReceiverAlive(w) THEN "sleep" ELSE "done"]
    /\ SftpWorkerUnchanged

\* sftp_thread_worker 644-657: the sleep ends, the thread ends
SftpWorkerEnd(w) ==
    /\ Running
    /\ sftp_worker[w].pc = "sleep"
    /\ sftp_worker' = [sftp_worker EXCEPT ![w].pc = "done"]
    /\ UNCHANGED sftp_chan
    /\ SftpWorkerUnchanged

SftpWorkerStep(w) ==
    \/ SftpWorkerConnecting(w)
    \/ SftpWorkerNew(w)
    \/ SftpWorkerConnected(w)
    \/ SftpWorkerEnd(w)

\* ---------------------------------------------------------------- transfers

\* the size of the file `name` of directory `path`, as File::metadata, fs::metadata
\* and the remote stat see it; None when there is no such file
FileSize(fs, path, name) ==
    IF path \in DOMAIN fs /\ \E i \in DOMAIN fs[path] :
                                 fs[path][i].kind = "File" /\ fs[path][i].name = name
    THEN LET i == CHOOSE i \in DOMAIN fs[path] :
                      fs[path][i].kind = "File" /\ fs[path][i].name = name
         IN  Some(fs[path][i].size)
    ELSE None

\* the task upload_file spawns for the selected local file
UploadTask(s, name) ==
    [NoTask EXCEPT !.pc = "upload_open", !.kind = "Upload", !.name = name,
                   !.src = FileSize(LocalFs, s.local_current_path, name)]

\* the task download_file spawns for the selected remote file; its local
\* destination is the file of that name in the local directory
DownloadTask(s, name) ==
    [NoTask EXCEPT !.pc = "stat", !.kind = "Download", !.name = name,
                   !.src = FileSize(RemoteFs, s.remote_current_path, name),
                   !.dest = FileSize(LocalFs, s.local_current_path, name)]

\* the copy run by the caller itself, as `sftp_upload(..).await` in upload_file
\* would: the caller goes on when the copy has ended
AwaitInline(task) == [task |-> task, returned |-> FALSE]

\* tokio::spawn(async move { .. }): the task is handed to the runtime, the
\* JoinHandle is dropped, and the caller goes on at once
TokioSpawn(task) == [task |-> task, returned |-> TRUE]

TransferKeyUnchanged ==
    UNCHANGED <<should_quit, regVars, active_panel, input_mode, status_message, sshVars,
                is_sftp_loading, sftp_ready_for_terminal, sftp_receiver, needs_redraw,
                terminal, sshThreadVars, sftpThreadVars, envVars, transfer_chan,
                transfer_observed, ssh_observed, listing>>

\* upload_file / download_file for the item selected on the side they read
StartTransfer(s, item, task, hint) ==
    IF item # None /\ item[1].kind = "File"
    THEN /\ \E t \in DOMAIN transfers : transfers[t].pc = "none"
         /\ LET t == Min({u \in DOMAIN transfers : transfers[u].pc = "none"})
                sp == TokioSpawn(task)
            IN  /\ transfers' = [transfers EXCEPT ![t] = sp.task]
                /\ main_pc' = IF sp.returned THEN "quit_check" ELSE "transfer_await"
         /\ UNCHANGED sftp_state
    ELSE /\ sftp_state' = Some(SetSftpStatus(s, hint))
         /\ main_pc' = "quit_check"
         /\ UNCHANGED transfers

\* Sftp: 'u', upload_file
KeySftpUpload ==
    /\ KeyRead("Sftp")
    /\ sftp_state # None
    /\ LET s == sftp_state[1]
           item == Get(s.local_files, s.local_selected)
       IN  StartTransfer(s, item, IF item = None THEN NoTask ELSE UploadTask(s, item[1].name),
                         <<"Please select a file to upload">>)
    /\ TransferKeyUnchanged

\* Sftp: 'd', download_file
KeySftpDownload ==
    /\ KeyRead("Sftp")
    /\ sftp_state # None
    /\ LET s == sftp_state[1]
           item == Get(s.remote_files, s.remote_selected)
       IN  StartTransfer(s, item,
                         IF item = None THEN NoTask ELSE DownloadTask(s, item[1].name),
                         <<"Please select a file to download">>)
    /\ TransferKeyUnchanged

\* tokio mpsc Sender::try_send: Err(Full) when the channel holds its capacity
TrySend(chan, ev) == IF Len(chan) < TransferChanCapacity THEN Append(chan, ev) ELSE chan

\* the progress closure of upload_file and download_file: try_send, its result
\* dropped
ProgressCallback(chan, t, bytes, total) ==
    TrySend(chan, TransferEvent(IF transfers[t].kind = "Upload" THEN "UploadProgress"
                                ELSE "DownloadProgress",
                                t, transfers[t].name, bytes, total, <<>>))

TaskUnchanged ==
    UNCHANGED <<should_quit, regVars, active_panel, input_mode, status_message, sshVars,
                sftpVars, main_pc, needs_redraw, terminal, sshThreadVars, sftpThreadVars,
                envVars, transfer_observed, ssh_observed, listing>>

\* sftp_upload or sftp_download has returned: its locals are gone, and its scp
\* has exited or is left to itself
Returned(task, result) ==
    [NoTask EXCEPT !.pc = "send", !.kind = task.kind, !.name = task.name,
                   !.result = Some(result), !.emitted = task.emitted]

\* sftp_upload returns Err(msg), or sftp_download does
Failed(task, msg) == Returned(task, <<"err", msg>>)

\* sftp_upload 137-159: the file is opened, its size read, scp spawned
UploadOpen(t) ==
    /\ t \in DOMAIN transfers
    /\ transfers[t].pc = "upload_open"
    /\ \E spawned \in BOOLEAN :
         transfers' = [transfers EXCEPT ![t] =
             IF @.src = None THEN Failed(@, <<"Failed to open local file">>)
             ELSE IF ~spawned THEN Failed(@, <<"Failed to start scp upload command">>)
             ELSE [@ EXCEPT !.pc = "upload_copy", !.total = transfers[t].src[1],
                            !.child = "writing"]]
    /\ UNCHANGED transfer_chan
    /\ TaskUnchanged

\* sftp_upload 166-184: one round of the copy loop.  A chunk is read and written
\* to the stdin of scp (the write fails when scp has exited), the closure is
\* called, the task yields; the loop ends on a read of 0 bytes
UploadCopy(t) ==
    /\ t \in DOMAIN transfers
    /\ transfers[t].pc = "upload_copy"
    /\ LET task == transfers[t]
           bytes_read == Min({ChunkLen, task.total - task.done})
           uploaded == task.done + bytes_read
       IN  IF bytes_read = 0
           THEN /\ transfers' = [transfers EXCEPT ![t].pc = "upload_wait"]
                /\ UNCHANGED transfer_chan
           ELSE IF task.child \in {"ok", "fail"}
           THEN /\ transfers' = [transfers EXCEPT ![t] = Failed(@, <<"Failed to write to scp">>)]
                /\ UNCHANGED transfer_chan
           ELSE /\ transfers' = [transfers EXCEPT ![t].done = uploaded,
                                                  ![t].emitted = Some(uploaded)]
                /\ transfer_chan' = ProgressCallback(transfer_chan, t, uploaded, task.total)
    /\ TaskUnchanged

\* sftp_upload 186-196: wait_with_output returns when scp has exited
UploadWait(t) ==
    /\ t \in DOMAIN transfers
    /\ transfers[t].pc = "upload_wait"
    /\ transfers[t].child \in {"ok", "fail"}
    /\ transfers' = [transfers EXCEPT ![t] =
           IF @.child = "ok" THEN Returned(@, <<"ok", <<>>>>)
           ELSE Failed(@, <<"SCP upload failed: ", "<stderr>">>)]
    /\ UNCHANGED transfer_chan
    /\ TaskUnchanged

\* sftp_download 209-272: the remote stat, scp spawned on a task of its own, the
\* first call of the closure
DownloadStat(t) ==
    /\ t \in DOMAIN transfers
    /\ transfers[t].pc = "stat"
    /\ \E ok \in BOOLEAN :
         LET task == transfers[t]
         IN  IF ~ok \/ task.src = None
             THEN /\ transfers' = [transfers EXCEPT ![t] =
                                       Failed(@, <<"Failed to get remote file size: ",
                                                   "<stderr>">>)]
                  /\ UNCHANGED transfer_chan
             ELSE /\ transfers' = [transfers EXCEPT ![t] =
                                       [@ EXCEPT !.pc = "monitor", !.total = task.src[1],
                                                 !.child = "spawned", !.done = 0,
                                                 !.emitted = Some(0)]]
                  /\ transfer_chan' = ProgressCallback(transfer_chan, t, 0, task.src[1])
    /\ TaskUnchanged

\* sftp_download 293-341: one round of the monitor loop, and what follows the
\* loop when the round was its last
DownloadMonitor(t) ==
    /\ t \in DOMAIN transfers
    /\ transfers[t].pc = "monitor"
    /\ LET task == transfers[t]
           download_complete == task.child = "ok"
           grown == task.dest # None /\ task.dest[1] > task.done
           last_size == IF grown THEN task.dest[1] ELSE task.done
           chan1 == IF grown THEN ProgressCallback(transfer_chan, t, last_size, task.total)
                    ELSE transfer_chan
       IN  IF task.child = "fail"
           THEN /\ transfers' = [transfers EXCEPT ![t] =
                                     Failed(@, <<"SCP download failed with status: ",
                                                 "<status>">>)]
                /\ UNCHANGED transfer_chan
           ELSE IF task.elapsed > StallTimeoutSecs /\ last_size = 0
           THEN /\ transfers' = [transfers EXCEPT ![t] =
                                     [Failed(@, <<"Download timed out with no progress">>)
                                         EXCEPT !.emitted = IF grown THEN Some(last_size)
                                                            ELSE task.emitted]]
                /\ transfer_chan' = chan1
           ELSE IF download_complete
           THEN /\ transfers' = [transfers EXCEPT ![t] =
                                     Returned([@ EXCEPT !.emitted = Some(task.total)],
                                              <<"ok", <<>>>>)]
                /\ transfer_chan' = ProgressCallback(chan1, t, task.total, task.total)
           ELSE /\ transfers' = [transfers EXCEPT ![t] =
                                     [@ EXCEPT !.done = last_size,
                                               !.emitted = IF grown THEN Some(last_size)
                                                           ELSE task.emitted,
                                               !.elapsed = Min({task.elapsed + ClockStep,
                                                                StallTimeoutSecs + ClockStep})]]
                /\ transfer_chan' = chan1
    /\ TaskUnchanged

\* the last send as a bug would have it: try_send, like the progress events
TransferTrySend(t) ==
    /\ t \in DOMAIN transfers
    /\ transfers[t].pc = "send"
    /\ LET task == transfers[t]
           kind == IF task.kind = "Upload"
                   THEN (IF task.result[1][1] = "ok" THEN "UploadComplete" ELSE "UploadError")
                   ELSE (IF task.result[1][1] = "ok" THEN "DownloadComplete"
                         ELSE "DownloadError")
       IN  transfer_chan' = TrySend(transfer_chan,
                                    TransferEvent(kind, t, task.name, 0, 0, task.result[1][2]))
    /\ transfers' = [transfers EXCEPT ![t].pc = "done", ![t].emitted = None]
    /\ TaskUnchanged

\* upload_file 49-60, download_file 106-118: Sender::send(..).await of the
\* Complete or Error event, which waits while the channel holds its capacity
TransferSend(t) ==
    /\ t \in DOMAIN transfers
    /\ transfers[t].pc = "send"
    /\ Len(transfer_chan) < TransferChanCapacity
    /\ LET task == transfers[t]
           kind == IF task.kind = "Upload"
                   THEN (IF task.result[1][1] = "ok" THEN "UploadComplete" ELSE "UploadError")
                   ELSE (IF task.result[1][1] = "ok" THEN "DownloadComplete"
                         ELSE "DownloadError")
       IN  transfer_chan' = Append(transfer_chan,
                                   TransferEvent(kind, t, task.name, 0, 0, task.result[1][2]))
    /\ transfers' = [transfers EXCEPT ![t].pc = "done", ![t].emitted = None]
    /\ TaskUnchanged

TaskStep(t) ==
    \/ UploadOpen(t)
    \/ UploadCopy(t)
    \/ UploadWait(t)
    \/ DownloadStat(t)
    \/ DownloadMonitor(t)
    \/ TransferSend(t)

\* the scp of a download opens its local file, which truncates it
ScpOpenDest(t) ==
    /\ t \in DOMAIN transfers
    /\ transfers[t].kind = "Download"
    /\ transfers[t].child = "spawned"
    /\ transfers' = [transfers EXCEPT ![t].child = "writing", ![t].dest = Some(0)]
    /\ UNCHANGED transfer_chan
    /\ TaskUnchanged

\* the scp of a download appends the bytes it received to its local file
ScpWrite(t) ==
    /\ t \in DOMAIN transfers
    /\ transfers[t].kind = "Download"
    /\ transfers[t].child = "writing"
    /\ transfers[t].dest[1] < transfers[t].src[1]
    /\ transfers' = [transfers EXCEPT ![t].dest =
                         Some(Min({@[1] + ChunkLen, transfers[t].src[1]}))]
    /\ UNCHANGED transfer_chan
    /\ TaskUnchanged

\* scp exits: with status 0 when it has copied the file, with another status at
\* any time
ScpExit(t) ==
    /\ t \in DOMAIN transfers
    /\ transfers[t].child \in {"spawned", "writing"}
    /\ \E ok \in BOOLEAN :
         /\ ok => /\ transfers[t].child = "writing"
                  /\ transfers[t].kind = "Download" => transfers[t].dest = transfers[t].src
         /\ transfers' = [transfers EXCEPT ![t].child = IF ok THEN "ok" ELSE "fail"]
    /\ UNCHANGED transfer_chan
    /\ TaskUnchanged

\* the connection of scp stalls for good: scp neither copies a byte nor exits
ScpStall(t) ==
    /\ t \in DOMAIN transfers
    /\ transfers[t].child \in {"spawned", "writing"}
    /\ transfers' = [transfers EXCEPT ![t].child = "stalled"]
    /\ UNCHANGED transfer_chan
    /\ TaskUnchanged

ScpStep(t) ==
    \/ ScpOpenDest(t)
    \/ ScpWrite(t)
    \/ ScpExit(t)
    \/ ScpStall(t)

\* ----------------------------------------------------------- specification

MainStep ==
    \/ MainProcessSshEvents
    \/ MainProcessSftpEvents
    \/ MainProcessTransferEvents
    \/ MainSuspended
    \/ MainResumeDraw
    \/ MainDraw
    \/ MainPollNoKey
    \/ MainQuitCheck

\* the keys of Normal and Search mode that start, leave or surround a connect
SessionKeyStep ==
    \/ KeyQuit
    \/ KeyCtrlC
    \/ KeySearch
    \/ KeyTab
    \/ KeyEsc
    \/ KeyEnter
    \/ KeyDown
    \/ KeySearchChar
    \/ KeySearchBackspace
    \/ KeySearchEnter
    \/ KeySearchEsc
    \/ KeySearchDown

\* the SSH session lifecycle: the main loop, the keys, the SSH worker threads
Next ==
    \/ MainStep
    \/ SessionKeyStep
    \/ \E w \in Sessions : SshWorkerStep(w)

Spec == Init /\ [][Next]_vars

\* the main loop never blocks for long (bounded poll, try_recv, bounded sleep)
MainLoop == MainStep \/ SessionKeyStep

\* the scheduler runs every thread; the probe and the interactive child end
Fairness ==
    /\ WF_vars(MainLoop)
    /\ \A w \in Sessions : WF_vars(SshWorkerStep(w))

FairSpec == Spec /\ Fairness

\* the session lifecycle with worker threads that may die silently
NextCrash ==
    \/ Next
    \/ \E w \in Sessions : SshWorkerDie(w)

CrashFairSpec == Init /\ [][NextCrash]_vars /\ Fairness

\* ------------------------------------------------- SFTP entry specification

\* the main loop where no SSH session is started
SftpMainStep ==
    \/ MainProcessSshEvents
    \/ MainProcessSftpEvents
    \/ MainProcessTransferEvents
    \/ MainDraw
    \/ MainPollNoKey
    \/ MainQuitCheck

SftpKeyStep ==
    \/ KeyQuit
    \/ KeyTab
    \/ KeySftp
    \/ KeySftpQuit
    \/ KeySearch
    \/ KeySearchEsc
    \/ KeyEsc

NextSftp ==
    \/ SftpMainStep
    \/ SftpKeyStep
    \/ \E w \in SftpSessions : SftpWorkerStep(w)

SpecSftp == Init /\ [][NextSftp]_vars

\* ---------------------------------------------- host registry specification

\* what the system SSH config may be
SystemSources ==
    {[state |-> "missing", hosts |-> <<>>], [state |-> "unreadable", hosts |-> <<>>]}
        \cup {[state |-> "ok", hosts |-> hs] : hs \in SeqsUpTo(SystemPool, MaxSourceLen)}

\* what the custom hosts file may be
CustomSources ==
    {[state |-> "missing", hosts |-> <<>>], [state |-> "malformed", hosts |-> <<>>]}
        \cup {[state |-> "ok", hosts |-> hs] : hs \in SeqsUpTo(CustomPool, MaxSourceLen)}

InitHosts == \E sys \in SystemSources, cust \in CustomSources : InitWith(sys, cust)

EditUnchanged ==
    UNCHANGED <<should_quit, regVars, active_panel, input_mode, status_message, sshVars,
                sftpVars, main_pc, needs_redraw, terminal, sshThreadVars, sftpThreadVars,
                xferVars, ssh_observed, listing>>

\* the user (or another program) rewrites the system SSH config
EditSystemFile ==
    /\ Running
    /\ edits < MaxEdits
    /\ edits' = edits + 1
    /\ \E sys \in SystemSources \ {system_src} : system_src' = sys
    /\ UNCHANGED <<custom_src, last_load>>
    /\ EditUnchanged

\* the user rewrites the custom hosts file
EditCustomFile ==
    /\ Running
    /\ edits < MaxEdits
    /\ edits' = edits + 1
    /\ \E cust \in CustomSources \ {custom_src} : custom_src' = cust
    /\ UNCHANGED <<system_src, last_load>>
    /\ EditUnchanged

HostsKeyStep ==
    \/ KeyQuit
    \/ KeyReload
    \/ KeyEdit
    \/ KeyTab
    \/ KeyShiftTab
    \/ KeyRight
    \/ KeyLeft
    \/ KeyUp
    \/ KeyDown

NextHosts ==
    \/ SftpMainStep
    \/ HostsKeyStep
    \/ EditSystemFile
    \/ EditCustomFile

SpecHosts == InitHosts /\ [][NextHosts]_vars

\* the reloads alone: the main loop, the two keys that call load_all_hosts, and
\* the edits of the two files
NextReload ==
    \/ SftpMainStep
    \/ KeyReload
    \/ KeyEdit
    \/ EditSystemFile
    \/ EditCustomFile

SpecReload == InitHosts /\ [][NextReload]_vars

\* ----------------------------------------------- SFTP browser specification

BrowseKeyStep ==
    \/ KeySftpQuit
    \/ KeySftpUp
    \/ KeySftpDown
    \/ KeySftpTab
    \/ KeySftpOpen
    \/ KeySftpRefresh

NextBrowse ==
    \/ SftpMainStep
    \/ MainRemoteLsExit
    \/ BrowseKeyStep

\* the application with a Transfer Session: 'f' was pressed on the first host,
\* the SFTP worker has sent Connecting, PreConnected and Connected and has
\* ended, the main loop has processed the three events, and Down was pressed
\* and keys were pressed that left the Transfer Session as session; the run is
\* one of up to n transfers
InitSftpSession(session, n) ==
    /\ InitRegistry(ScenarioSystem, ScenarioCustom)
    /\ should_quit = FALSE
    /\ active_panel = "Groups"
    /\ input_mode = "Sftp"
    /\ status_message = Some(<<"Connection successful! Launching SFTP...">>)
    /\ is_connecting = FALSE
    /\ connecting_host = None
    /\ ssh_ready_for_terminal = FALSE
    /\ ssh_receiver = None
    /\ is_sftp_loading = TRUE
    /\ sftp_ready_for_terminal = TRUE
    /\ sftp_receiver = Some(1)
    /\ sftp_state = Some(session)
    /\ main_pc = "draw"
    /\ needs_redraw = FALSE
    /\ terminal = UiTerminal
    /\ ssh_worker = [w \in Sessions |-> IdleWorker]
    /\ ssh_chan = [w \in Sessions |-> <<>>]
    /\ sftp_worker = [w \in SftpSessions |->
                         IF w = 1 THEN [pc |-> "done", host |-> Some(hosts[1]), probe |-> None]
                         ELSE IdleWorker]
    /\ sftp_chan = [w \in SftpSessions |-> <<>>]
    /\ ssh_sent = [w \in Sessions |-> <<>>]
    /\ ssh_observed = [w \in Sessions |-> <<>>]
    /\ transfers = [t \in 1..n |-> NoTask]
    /\ transfer_chan = <<>>
    /\ transfer_observed = [t \in 1..n |-> NotObserved]
    /\ listing = NoListing

\* Down was pressed until item l of the local and item r of the remote listing
\* were selected
InitSftpMode(l, r, n) ==
    InitSftpSession([NewSftpState(hosts[1], TRUE).state
                         EXCEPT !.local_selected = l, !.remote_selected = r], n)

\* the Transfer Session just established
InitBrowse == InitSftpMode(0, 0, MaxTransfers)

SpecBrowse == InitBrowse /\ [][NextBrowse]_vars

\* ------------------------------------------------- transfer specification

\* the Transfer Session with local file e selected, and a file of the remote
\* listing, in a run of one transfer
InitTransfer ==
    \E r \in {1, 2}, opened \in BOOLEAN :
        LET new == NewSftpState(hosts[1], TRUE).state
            \* Enter on remote directory a, the listing command having failed: the
            \* path is "/a" and the listing is the one of "/"
            stale == RefreshRemoteEnd(RefreshRemoteStart(OpenRemoteSelectedPath(new).s),
                                      FALSE).s
        IN  InitSftpSession([(IF opened THEN stale ELSE new)
                                 EXCEPT !.local_selected = 2, !.remote_selected = r], 1)

TransferKeyStep ==
    \/ KeySftpDown
    \/ KeySftpUpload
    \/ KeySftpDownload

\* the Transfer Session: the main loop, the keys that select and transfer a
\* file, the transfer tasks and their scp processes
NextTransfer ==
    \/ SftpMainStep
    \/ TransferKeyStep
    \/ \E t \in Tasks : TaskStep(t)
    \/ \E t \in Tasks : ScpStep(t)

SpecTransfer == InitTransfer /\ [][NextTransfer]_vars

\* the main loop never waits for long, and the runtime runs every task
TransferFairness ==
    /\ WF_vars(SftpMainStep \/ TransferKeyStep)
    /\ \A t \in Tasks : WF_vars(TaskStep(t))

FairTransferSpec == SpecTransfer /\ TransferFairness

\* ------------------------------------------ concurrent uploads specification

UploadStep(t) ==
    \/ UploadOpen(t)
    \/ UploadCopy(t)
    \/ UploadWait(t)
    \/ TransferSend(t)

\* uploads of the two local files, one started while the other is in flight
NextUploads ==
    \/ SftpMainStep
    \/ KeySftpDown
    \/ KeySftpUpload
    \/ \E t \in Tasks : UploadStep(t)
    \/ \E t \in Tasks : ScpExit(t)

\* the Transfer Session with local file e selected
InitUploads == InitSftpMode(2, 0, MaxTransfers)

SpecUploads == InitUploads /\ [][NextUploads]_vars

\* ------------------------------------------ directory listing specification

\* entries a directory holds at most
MaxEntries == 3

\* the names of the entries: "-" sorts before "..", and each name may be the
\* name of a directory or of a file
ListingNames == {<<"-">>, DirA, DirB, FileE}

\* what a directory may hold, in the order read_dir or ls yields it: no name twice
DirContents ==
    {es \in SeqsUpTo({Directory(n) : n \in ListingNames}
                         \cup {File(n, 1) : n \in ListingNames}, MaxEntries) :
        \A i, j \in DOMAIN es : es[i].name = es[j].name => i = j}

\* a call of read_local_directory or read_remote_directory about to be made
InitListing ==
    /\ InitRegistry(ScenarioSystem, ScenarioCustom)
    /\ InitIdle
    /\ \E side \in {"local", "remote"}, path \in {RootPath, CurrentDir}, es \in DirContents :
         listing = [side |-> side, path |-> path, entries |-> es, result |-> None]

ListingUnchanged ==
    UNCHANGED <<should_quit, regVars, active_panel, input_mode, status_message, sshVars,
                sftpVars, main_pc, needs_redraw, terminal, sshThreadVars, sftpThreadVars,
                envVars, xferVars, ssh_observed>>

\* read_local_directory returns
ReadLocalDirectoryCall ==
    /\ listing.side = "local"
    /\ listing.result = None
    /\ listing' = [listing EXCEPT !.result = Some(LocalItems(listing.path, listing.entries))]
    /\ ListingUnchanged

\* read_remote_directory returns; ls prints "." and ".." before the entries
ReadRemoteDirectoryCall ==
    /\ listing.side = "remote"
    /\ listing.result = None
    /\ listing' = [listing EXCEPT !.result =
           Some(RemoteItems(listing.path,
                            <<Directory(<<".">>), Directory(DotDot)>> \o listing.entries))]
    /\ ListingUnchanged

NextListing ==
    \/ ReadLocalDirectoryCall
    \/ ReadRemoteDirectoryCall

SpecListing == InitListing /\ [][NextListing]_vars

\* ------------------------------------------- SSH and SFTP sessions together

\* the keys that start or leave a session or a mode
ModesKeyStep ==
    \/ KeySftp
    \/ KeySftpQuit
    \/ KeyEnter
    \/ KeySearch
    \/ KeySearchEnter
    \/ KeySearchEsc
    \/ KeyEsc

\* the main loop with both kinds of worker thread running beside it
NextModes ==
    \/ MainStep
    \/ ModesKeyStep
    \/ \E w \in Sessions : SshWorkerStep(w)
    \/ \E w \in SftpSessions : SftpWorkerStep(w)

SpecModes == Init /\ [][NextModes]_vars

\* ------------------------------------------------- selection specification

App2 == <<"a", "2">>
App3 == <<"a", "3">>

\* a hosts file with two hosts in one group and one in a group that is named
\* Ungrouped, the name update_hosts_for_selected_group gives the hosts without a
\* group; none of the three is an alias of the system SSH config
SelectCustom ==
    [state |-> "ok",
     hosts |-> <<Host(App1, <<"1", "1">>, <<"a">>, Some(2222), Some("Prod")),
                 Host(App2, <<"1", "2">>, <<"w">>, Some(22), Some("Prod")),
                 Host(App3, <<"1", "3">>, <<"a">>, Some(22), Some("Ungrouped"))>>]

InitSelect == InitWith(ScenarioSystem, SelectCustom)

\* the keys that move a selection, enter or leave Search mode, or reload
SelectKeyStep ==
    \/ KeyTab
    \/ KeyShiftTab
    \/ KeyRight
    \/ KeyLeft
    \/ KeyUp
    \/ KeyDown
    \/ KeySearch
    \/ KeySearchChar
    \/ KeySearchBackspace
    \/ KeySearchEsc
    \/ KeySearchUp
    \/ KeySearchDown
    \/ KeyReload

NextSelect ==
    \/ SftpMainStep
    \/ SelectKeyStep
    \/ EditSystemFile
    \/ EditCustomFile

SpecSelect == InitSelect /\ [][NextSelect]_vars

\* ------------------------------------------------------------------ claims

Kinds(evs) == [i \in DOMAIN evs |-> evs[i].kind]

IsPrefix(a, b) == Len(a) <= Len(b) /\ SubSeq(b, 1, Len(a)) = a

TerminalKinds == {"Error", "Disconnected"}

\* the main loop has received the Connected of session w
ConnectedProcessed(w) == \E i \in DOMAIN ssh_observed[w] : ssh_observed[w][i] = "Connected"

\* the main loop has received the terminal event of session w
TerminalProcessed(w) ==
    \E i \in DOMAIN ssh_observed[w] : ssh_observed[w][i] \in TerminalKinds

\* session w's worker was spawned and its terminal event is not processed yet
SessionPending(w) == ssh_worker[w].pc # "none" /\ ~TerminalProcessed(w)

\* C1: from the spawn of an SSH worker until the main loop has processed that
\* worker's terminal event no second SSH worker is spawned: at most one session
\* is pending at any time, whatever keys are pressed.
C1_SessionExclusivity == Cardinality({w \in Sessions : SessionPending(w)}) <= 1

\* C1 witness: a second worker was spawned, after the first one's terminal event
\* was processed.
C1_Witness == SessionPending(2) /\ TerminalProcessed(1)

\* the statements of run_app after which the UI is drawn or a key is read
DrawOrKeyPcs == {"resume_draw", "draw", "poll"}

\* C2: once the terminal event (Disconnected or Error) of a session whose
\* Connected was processed is processed, the main loop has called restore_ui
\* before it next draws or handles a key: at those statements the terminal is
\* back in UI mode.
C2_RestoredBeforeDraw ==
    \A w \in Sessions :
        (ConnectedProcessed(w) /\ TerminalProcessed(w) /\ main_pc \in DrawOrKeyPcs)
            => terminal = UiTerminal

\* C3: the interactive child runs only after the main loop has completed the
\* terminal-mode transition of its session: never while the terminal is still
\* in UI mode.
C3_ChildAfterTransition ==
    \A w \in Sessions :
        ssh_worker[w].pc = "exec"
            => (ConnectedProcessed(w) /\ ~terminal.raw_mode /\ ~terminal.alt_screen)

\* C4: the main loop observes a worker's events in the order the worker sent
\* them, Connecting before Connected or Error, and Disconnected or Error
\* strictly after Connected.
C4_EventOrdering ==
    \A w \in Sessions :
        LET o == ssh_observed[w]
        IN  /\ IsPrefix(o, Kinds(ssh_sent[w]))
            /\ \A i \in DOMAIN o :
                   o[i] \in {"Connected", "Error"} => \E j \in 1..(i - 1) : o[j] = "Connecting"
            /\ \A i, j \in DOMAIN o :
                   (o[i] = "Connected" /\ o[j] \in TerminalKinds) => i < j

\* C4 witness: a whole session was observed.
C4_Witness == \E w \in Sessions : ssh_observed[w] = <<"Connecting", "Connected", "Disconnected">>

\* the probe of session w has run and failed
ProbeFailed(w) == ssh_worker[w].probe # None /\ ssh_worker[w].probe[1].result # "ok"

\* C5: when the probe fails the worker has sent Connecting and then exactly one
\* Error, which carries the probe's trimmed stderr (after a non-zero exit) or the
\* spawn failure's text; the thread has ended, the interactive child was never
\* started, and nothing else is sent.
C5_ProbeFailure ==
    \A w \in Sessions :
        ProbeFailed(w) =>
            LET probe == ssh_worker[w].probe[1]
            IN  /\ ssh_worker[w].pc = "done"
                /\ Kinds(ssh_sent[w]) = <<"Connecting", "Error">>
                /\ ssh_sent[w][2].msg =
                       IF probe.result = "exit_nonzero"
                       THEN <<"Connection test failed: ", "SSH connection test failed: ">>
                                \o Trim(probe.stderr)
                       ELSE <<"Connection test failed: ", "Failed to test SSH connection">>

\* C5 witness: a probe failed with whitespace around its stderr, and the main
\* loop has received the Error.
C5_Witness ==
    \E w \in Sessions :
        /\ ProbeFailed(w)
        /\ ssh_worker[w].probe[1].stderr # Trim(ssh_worker[w].probe[1].stderr)
        /\ Trim(ssh_worker[w].probe[1].stderr) # <<>>
        /\ ssh_observed[w] = <<"Connecting", "Error">>

\* C6: when an SSH worker has died without a terminal event while the UI is
\* connecting or has handed the terminal over, the main loop eventually gives
\* up: is_connecting and ssh_ready_for_terminal become false (unless run_app has
\* returned meanwhile).
C6_GivesUpOnDeadWorker ==
    \A w \in Sessions :
        (ssh_worker[w].pc = "dead")
            ~> ((~is_connecting /\ ~ssh_ready_for_terminal) \/ main_pc \in Stopped)

\* C7: a failure of transition_to_ssh_mode or restore_tui_mode is not propagated
\* out of the main loop: run_app never returns an error.
C7_FailureNotPropagated == main_pc # "aborted"

\* C8: every connect request is eventually followed by a state with
\* is_connecting = false and ssh_receiver = None.
C8_ConnectEventuallyEnds ==
    \A w \in Sessions :
        (ssh_worker[w].pc = "start") ~> (~is_connecting /\ ssh_receiver = None)

\* C9: at most one SFTP worker thread exists at a time.
C9_AtMostOneSftpWorker ==
    Cardinality({w \in SftpSessions : sftp_worker[w].pc \notin {"none", "done"}}) <= 1

\* the first entry of hs with the alias a
FirstWithAlias(hs, a) == hs[Min({i \in DOMAIN hs : hs[i].alias = a})]

\* C10: after load_all_hosts (the files unchanged since), an alias that both the
\* system SSH config and the custom hosts file define is in the registry exactly
\* once, with the fields of the custom entry.
C10_CustomWins ==
    (edits = 0 /\ system_src.state = "ok" /\ custom_src.state = "ok") =>
        \A a \in Aliases(system_src.hosts) \cap Aliases(custom_src.hosts) :
            /\ Cardinality({i \in DOMAIN hosts : hosts[i].alias = a}) = 1
            /\ FirstWithAlias(hosts, a) = FirstWithAlias(custom_src.hosts, a)

\* the registry load_all_hosts builds from the two files alone
FreshHosts(sys, cust) == LoadAllHosts(DefaultRegistry, sys, cust).hosts

\* C11: after every call of load_all_hosts that returned Ok the host list is a
\* function of the contents the two files had at that call, and of nothing
\* else: it is the list a load into an empty registry gives.
C11_ReloadRebuilds == last_load.ok => hosts = FreshHosts(last_load.sys, last_load.cust)

\* no two hosts of hs share an alias
UniqueAliases(hs) == \A i, j \in DOMAIN hs : hs[i].alias = hs[j].alias => i = j

\* C12: after every successful load_all_hosts, the initial one and every
\* reload, no two hosts of the registry share an alias, whatever the two files
\* hold.
C12_DedupInvariant == last_load.ok => UniqueAliases(hosts)

\* C12 witness: a reload has succeeded on files that both repeat an alias and
\* share one, and left more than one host.
C12_Witness ==
    /\ edits > 0
    /\ last_load = [sys |-> system_src, cust |-> custom_src, ok |-> TRUE]
    /\ system_src.state = "ok" /\ ~UniqueAliases(system_src.hosts)
    /\ custom_src.state = "ok" /\ ~UniqueAliases(custom_src.hosts)
    /\ Aliases(system_src.hosts) \cap Aliases(custom_src.hosts) # {}
    /\ Len(hosts) > 1

\* C13: the bytes_done a transfer's progress closure is called with never
\* decrease from one call to the next, the last call included, also when the
\* download's local file exists before the download and is larger than the
\* remote file
C13_ProgressMonotone ==
    [][\A t \in DOMAIN transfers :
           (transfers[t].emitted # None /\ transfers'[t].emitted # None)
               => transfers'[t].emitted[1] >= transfers[t].emitted[1]]_vars

\* C14: when the main loop has received the Complete event of a transfer, the
\* last progress event it received of that transfer has bytes_done =
\* bytes_total, also when the channel was full at the task's last call of the
\* progress closure
C14_FinalProgressComplete ==
    \A t \in DOMAIN transfers :
        (transfer_observed[t].ended = "complete" /\ transfer_observed[t].progress # None)
            => transfer_observed[t].progress[1][1] = transfer_observed[t].progress[1][2]

\* the Transfer Session displays a progress of the file of task t
Displayed(s, t) ==
    LET slot == IF transfers[t].kind = "Upload" THEN s.upload_progress
                ELSE s.download_progress
    IN  slot # None /\ slot[1].file_name = transfers[t].name

\* no other transfer of the run is one of the file of task t
OwnFileName(t) ==
    \A u \in DOMAIN transfers \ {t} :
        transfers[u].pc = "none" \/ transfers[u].name # transfers[t].name

\* C15: progress is kept by file name: every transfer of which the main loop has
\* received a progress event, and no Complete or Error yet, has its progress
\* displayed, whatever events of transfers of other files arrived since
C15_ProgressPerFile ==
    sftp_state # None =>
        \A t \in DOMAIN transfers :
            (/\ transfer_observed[t].progress # None
             /\ transfer_observed[t].ended = "none"
             /\ OwnFileName(t))
                => Displayed(sftp_state[1], t)

\* sftp_upload / sftp_download of task t has returned an Err
TransferFailed(t) ==
    t \in DOMAIN transfers /\ transfers[t].result # None /\ transfers[t].result[1][1] = "err"

\* the scp of task t has stalled for good, before or after it copied bytes
TransferStalled(t) == t \in DOMAIN transfers /\ transfers[t].child = "stalled"

\* C16: a transfer whose scp makes no progress any more is given up after the
\* stall timeout: its task fails (and sends the Error event), upload or
\* download, also after some bytes were transferred
C16_StallTimesOut == \A t \in Tasks : TransferStalled(t) ~> TransferFailed(t)

\* the task of transfer t was spawned and has not sent its last event
InFlight(t) == transfers[t].pc \notin {"none", "done"}

\* the statements of run_app at which the main loop waits for nothing but the
\* bounded poll
TickPcs == {"events", "sftp_events", "transfer_events", "draw", "poll", "quit_check"}

C18_ListingOffUiThread == main_pc \notin RemoteLsPcs

\* the listing starts with the synthetic ".." entry
HasParentEntry(files) == files # <<>> /\ files[1] = Directory(DotDot)

\* C19: in every state of a Transfer Session (no handler half-way), after any
\* navigations and refreshes, failed listings included, the remote listing
\* starts with ".." exactly when remote_current_path is not "/", and the local
\* listing starts with ".." exactly when local_current_path has a parent.
C19_ListingInvariant ==
    (sftp_state # None /\ main_pc \notin RemoteLsPcs) =>
        LET s == sftp_state[1]
        IN  /\ HasParentEntry(s.remote_files) <=> s.remote_current_path # RootPath
            /\ HasParentEntry(s.local_files) <=> LocalParent(s.local_current_path) # None

\* opening the i-th remote entry (a directory other than "..") and then "..",
\* when the listing shown then offers "..", gives the path of s again
RemoteRoundTrip(s, i) ==
    LET s1 == OpenRemoteSelectedPath([s EXCEPT !.remote_selected = i - 1]).s
        l1 == RefreshRemoteEnd(s1, TRUE).s
        s2 == OpenRemoteSelectedPath(l1).s
    IN  HasParentEntry(l1.remote_files) =>
            s2.remote_current_path = s.remote_current_path

\* the same on the local panel
LocalRoundTrip(s, i) ==
    LET s1 == OpenLocalSelected([s EXCEPT !.local_selected = i - 1], TRUE)
        s2 == OpenLocalSelected(s1, TRUE)
    IN  HasParentEntry(s1.local_files) => s2.local_current_path = s.local_current_path

\* C20: from every reachable Transfer Session, opening a directory foo and then
\* ".." leaves remote_current_path exactly the string it was, at "/" as well as
\* deeper; ".." at "/" leaves "/"; the same holds for the local path.
C20_PathRoundTrip ==
    sftp_state # None =>
        LET s == sftp_state[1]
        IN  /\ \A i \in DOMAIN s.remote_files :
                   (s.remote_files[i].kind = "Directory" /\ s.remote_files[i].name # DotDot)
                       => RemoteRoundTrip(s, i)
            /\ \A i \in DOMAIN s.local_files :
                   (s.local_files[i].kind = "Directory" /\ s.local_files[i].name # DotDot)
                       => LocalRoundTrip(s, i)
            /\ (s.remote_current_path = RootPath /\ HasParentEntry(s.remote_files))
                   => OpenRemoteSelectedPath([s EXCEPT !.remote_selected = 0]).s
                          .remote_current_path = RootPath
            /\ (s.local_current_path = RootPath /\ HasParentEntry(s.local_files))
                   => OpenLocalSelected([s EXCEPT !.local_selected = 0], TRUE)
                          .local_current_path = RootPath

\* C20 witness: the user has gone down on both panels and back up to "/" on the
\* remote one, where a directory can be opened and ".." taken again.
C20_Witness ==
    /\ sftp_state # None
    /\ main_pc = "quit_check"
    /\ sftp_state[1].remote_current_path = RootPath
    /\ sftp_state[1].status_message = None
    /\ \E i \in DOMAIN sftp_state[1].remote_files :
           sftp_state[1].remote_files[i] = Directory(DirA)
    /\ sftp_state[1].local_current_path = PathJoin(CurrentDir, DirB)
    /\ HasParentEntry(sftp_state[1].local_files)

\* C21: the listing read_local_directory and read_remote_directory return has
\* ".." first when it has it, then the directories in ascending order of their
\* names, then the files in ascending order of their names
SortedListing(items) ==
    /\ \A i \in DOMAIN items : items[i].name = DotDot => i = 1
    /\ \A i, j \in DOMAIN items :
         i < j => /\ ~(items[i].kind = "File" /\ items[j].kind = "Directory")
                  /\ (items[i].kind = items[j].kind /\ items[i].name # DotDot)
                         => StrLess(items[i].name, items[j].name)

C21_SortInvariant == listing.result # None => SortedListing(listing.result[1])

\* a directory below the root that holds "-" and file e, read in another order
C21_Witness ==
    /\ listing.entries = <<File(FileE, 1), Directory(DirB), Directory(<<"-">>)>>
    /\ listing.result = Some(<<Directory(DotDot), Directory(<<"-">>), Directory(DirB),
                               File(FileE, 1)>>)

\* C22: when Enter on a remote directory has run the listing command, the
\* Transfer Session's status is clear (the listing was read) or holds the error
\* text of the failed command, its stderr
HoldsErrorText(status) == status # None /\ \E i \in DOMAIN status[1] : status[1][i] = "<stderr>"

C23_FailedRefreshKeepsListing ==
    [][(sftp_state # None /\ sftp_state' # None)
          => /\ (main_pc \in RemoteLsPcs /\ main_pc' # main_pc
                     /\ sftp_state'[1].status_message # None)
                 => sftp_state'[1].remote_files = sftp_state[1].remote_files
             /\ \/ sftp_state'[1].local_files = sftp_state[1].local_files
                \/ sftp_state'[1].local_files
                       = ReadLocalDirectory(sftp_state'[1].local_current_path, TRUE).items]_vars

\* Enter on remote directory a failed: the path is "/a", the listing is still
\* the one of "/", and the handler has returned
C23_Witness ==
    /\ sftp_state # None
    /\ main_pc = "quit_check"
    /\ sftp_state[1].remote_current_path = <<Slash>> \o DirA
    /\ sftp_state[1].remote_files = ReadRemoteDirectory(RootPath, TRUE).items
    /\ sftp_state[1].status_message # None

\* C24: SFTP mode is entered only when the main loop receives PreConnected, and
\* with the Transfer Session the event carries; every PreConnected sent carries
\* a Transfer Session with both listings loaded; the worker that sends Error
\* sends nothing else but the Connecting before it; and when the main loop
\* receives Error the UI is out of SFTP mode without a Transfer Session, and
\* stays so
ListingsLoaded(s) ==
    /\ s.local_files = ReadLocalDirectory(s.local_current_path, TRUE).items
    /\ s.remote_files = ReadRemoteDirectory(s.remote_current_path, TRUE).items

SftpReceives(kind) ==
    /\ main_pc = "sftp_events"
    /\ sftp_receiver # None
    /\ sftp_chan[sftp_receiver[1]] # <<>>
    /\ Head(sftp_chan[sftp_receiver[1]]).kind = kind

SftpSends(w, kind) ==
    /\ Len(sftp_chan'[w]) = Len(sftp_chan[w]) + 1
    /\ sftp_chan'[w][Len(sftp_chan'[w])].kind = kind

C24_SftpAfterProbe ==
    /\ [](\A w \in SftpSessions : \A i \in DOMAIN sftp_chan[w] :
              sftp_chan[w][i].kind = "PreConnected" => ListingsLoaded(sftp_chan[w][i].msg))
    /\ [][/\ (input_mode # "Sftp" /\ input_mode' = "Sftp")
               => /\ SftpReceives("PreConnected")
                  /\ sftp_state' = Some(Head(sftp_chan[sftp_receiver[1]]).msg)
           /\ \A w \in SftpSessions :
                  /\ SftpSends(w, "Error")
                        => sftp_worker[w].pc = "new" /\ sftp_worker'[w].pc = "done"
                  /\ SftpSends(w, "PreConnected") => sftp_worker[w].pc = "new"
                  /\ SftpSends(w, "Connecting") => sftp_worker[w].pc = "start"
           /\ (SftpReceives("Error") /\ main_pc' # main_pc)
               => /\ input_mode # "Sftp" /\ sftp_state = None
                  /\ input_mode' = input_mode /\ sftp_state' = None]_vars

\* the main loop has received PreConnected and is in SFTP mode
C24_Witness ==
    /\ input_mode = "Sftp"
    /\ sftp_state # None
    /\ ListingsLoaded(sftp_state[1])
    /\ status_message = Some(<<"SFTP mode active for ">> \o sftp_state[1].ssh_host)

\* C25: when the main loop has received an Error of the SSH worker, the
\* application is running, the status is the error text, is_connecting and
\* ssh_ready_for_terminal are false and ssh_receiver is None, so that the key
\* guard lets the next Enter through
SshReceivesError ==
    /\ ssh_receiver # None
    /\ ssh_chan[ssh_receiver[1]] # <<>>
    /\ Head(ssh_chan[ssh_receiver[1]]).kind = "Error"
    /\ ssh_observed'[ssh_receiver[1]] # ssh_observed[ssh_receiver[1]]

C25_ErrorRecovered ==
    [][SshReceivesError
          => /\ main_pc' \notin Stopped
             /\ status_message' = Some(<<"SSH Error: ">> \o Head(ssh_chan[ssh_receiver[1]]).msg)
             /\ ~is_connecting'
             /\ ~ssh_ready_for_terminal'
             /\ ssh_receiver' = None
             /\ ~should_quit']_vars

\* the first session has ended with Error, and the Enter pressed after it has
\* spawned the second worker
C25_Witness ==
    /\ ssh_observed[1] # <<>>
    /\ ssh_observed[1][Len(ssh_observed[1])] = "Error"
    /\ ssh_worker[2].pc = "start"
    /\ is_connecting
    /\ ssh_receiver = Some(2)

\* C26: the main loop calls restore_tui_mode, which it does when it receives
\* Disconnected, only for a session whose Connected it has received and whose
\* Disconnected it has not: the terminal was handed over by
\* transition_to_ssh_mode and not restored since
Observed(w, kind) == \E i \in DOMAIN ssh_observed[w] : ssh_observed[w][i] = kind

C26_RestorePaired ==
    [][\A w \in Sessions :
           ssh_observed'[w] = Append(ssh_observed[w], "Disconnected")
               => /\ Observed(w, "Connected")
                  /\ ~Observed(w, "Disconnected")
                  /\ ssh_ready_for_terminal
                  /\ terminal = [raw_mode |-> FALSE, alt_screen |-> FALSE]]_vars

\* the first session was restored once, and the second is handed the terminal
C26_Witness ==
    /\ ssh_observed[1] = <<"Connecting", "Connected", "Disconnected">>
    /\ ssh_observed[2] = <<"Connecting", "Connected">>
    /\ terminal = [raw_mode |-> FALSE, alt_screen |-> FALSE]

\* C27: when the main loop takes a transfer's Complete from the channel, the
\* listing of the destination side is read again: after an upload the remote
\* listing is the one of the remote path and the status is clear, or the
\* listing command failed and left its "Loading" status; after a download the
\* local listing is the one of the local path, or what it was when read_dir
\* failed.  When it takes a transfer's Error, the status is the message of the
\* Error and both listings are what they were
TakesTransferEvents ==
    /\ main_pc = "transfer_events"
    /\ sftp_state # None
    /\ transfer_chan # <<>>
    /\ transfer_chan' = <<>>

C27_RefreshAfterTransfer ==
    [][TakesTransferEvents
          => LET last == transfer_chan[Len(transfer_chan)]
                 old == sftp_state[1]
                 new == sftp_state'[1]
             IN  /\ last.kind = "UploadComplete"
                       => \/ /\ new.remote_files
                                    = ReadRemoteDirectory(new.remote_current_path, TRUE).items
                             /\ new.status_message = None
                          \/ /\ new.remote_files = old.remote_files
                             /\ new.status_message = Some(<<"Loading remote directory...">>)
                 /\ last.kind = "DownloadComplete"
                       => \/ new.local_files
                                 = ReadLocalDirectory(new.local_current_path, TRUE).items
                          \/ new.local_files = old.local_files
                 /\ last.kind \in {"UploadError", "DownloadError"}
                       => /\ new.status_message = Some(last.msg)
                          /\ new.remote_files = old.remote_files
                          /\ new.local_files = old.local_files]_vars

\* the upload to "/a", whose listing had not been read, has completed: the
\* remote listing is the one of "/a"
C27_Witness ==
    /\ sftp_state # None
    /\ transfers[1].kind = "Upload"
    /\ transfer_observed[1].ended = "complete"
    /\ sftp_state[1].remote_current_path = <<Slash>> \o DirA
    /\ sftp_state[1].remote_files = ReadRemoteDirectory(<<Slash>> \o DirA, TRUE).items
    /\ sftp_state[1].status_message = None

\* C28: a call of load_all_hosts that found the custom hosts file malformed
\* has returned an error
C28_MalformedIsError == last_load.cust.state = "malformed" => ~last_load.ok

\* the events a step adds to the transfer channel
SentEvents ==
    IF Len(transfer_chan') > Len(transfer_chan)
    THEN SubSeq(transfer_chan', Len(transfer_chan) + 1, Len(transfer_chan'))
    ELSE <<>>

ProgressKinds == {"UploadProgress", "DownloadProgress"}

TaskAt(t, pc) == t \in DOMAIN transfers /\ transfers[t].pc = pc

C30_CtrlCWhileConnecting ==
    (main_pc = "poll" /\ is_connecting /\ ~ssh_ready_for_terminal) => KeyRead(input_mode)

\* the terminal belongs to the child of session w as far as the main loop knows:
\* it has processed w's Connected and not yet w's Disconnected or Error
ForeignPhase(w) == ConnectedProcessed(w) /\ ~TerminalProcessed(w)

\* the main loop takes an event off an SFTP channel or off the transfer channel
TakesSftpOrTransferEvent ==
    \/ \E w \in SftpSessions : Len(sftp_chan'[w]) < Len(sftp_chan[w])
    \/ Len(transfer_chan') < Len(transfer_chan)

\* C31: from the step that processes the Connected of a session until the step
\* that processes its Disconnected or Error, the main loop is at no statement
\* that draws the UI or reads a key, and it takes no event off an SFTP channel or
\* the transfer channel: it only polls the SSH channel.
C31_SuspendedWhileForeign ==
    [][\A w \in Sessions :
           ForeignPhase(w)
               => /\ main_pc \in {"draw", "poll", "redraw"} => main_pc' = main_pc
                  /\ ~TakesSftpOrTransferEvent]_vars

\* the statements of run_app that call process_ssh_events
SshDrainPcs == {"events", "suspended"}

\* the receiver the App holds has nothing waiting
SshChannelEmpty == ssh_receiver = None \/ ssh_chan[ssh_receiver[1]] = <<>>

\* C32: only the main loop takes events off an SSH channel, and only in
\* process_ssh_events; a call takes at most one event, the oldest one of the
\* channel it holds, so that nothing is reordered, duplicated or skipped; with
\* nothing waiting the call changes nothing and the loop goes on without waiting.
C32_NonBlockingDrain ==
    [][/\ \A w \in Sessions :
            /\ Len(ssh_chan'[w]) < Len(ssh_chan[w])
                   => /\ main_pc \in SshDrainPcs
                      /\ ssh_receiver = Some(w)
            /\ (ssh_chan'[w] # ssh_chan[w] \/ ssh_observed'[w] # ssh_observed[w])
                   => \/ /\ ssh_chan[w] # <<>>
                         /\ ssh_chan'[w] = Tail(ssh_chan[w])
                         /\ ssh_observed'[w] = Append(ssh_observed[w], Head(ssh_chan[w]).kind)
                      \/ /\ Len(ssh_sent'[w]) = Len(ssh_sent[w]) + 1
                         /\ ssh_chan'[w] = Append(ssh_chan[w], ssh_sent'[w][Len(ssh_sent'[w])])
                         /\ ssh_observed'[w] = ssh_observed[w]
       /\ (main_pc = "events" /\ main_pc' # main_pc /\ SshChannelEmpty)
              => /\ main_pc' = "sftp_events"
                 /\ UNCHANGED <<ssh_chan, ssh_observed, sshVars, status_message, terminal>>
       /\ (main_pc = "suspended" /\ SshChannelEmpty) => main_pc' = "suspended"]_vars

\* C32 witness: two of the three events of session 1 were taken in the order
\* they were sent while the third one waits.
C32_Witness ==
    /\ Kinds(ssh_sent[1]) = <<"Connecting", "Connected", "Disconnected">>
    /\ ssh_observed[1] = <<"Connecting", "Connected">>
    /\ Kinds(ssh_chan[1]) = <<"Disconnected">>

\* C33: in every state of the main loop is_connecting is true exactly when the
\* App holds an SSH receiver, and ssh_ready_for_terminal implies is_connecting.
C33_ConnectingIffReceiver ==
    /\ is_connecting <=> (ssh_receiver # None)
    /\ ssh_ready_for_terminal => is_connecting

\* C33 witness: the terminal is handed to the second session, after the first
\* one's terminal event was processed.
C33_Witness ==
    /\ TerminalProcessed(1)
    /\ ssh_receiver = Some(2)
    /\ is_connecting
    /\ ssh_ready_for_terminal

\* C34: in every state input_mode is Sftp exactly when a Transfer Session is
\* held, whatever keys (search and Esc among them) are pressed and whatever SFTP
\* events arrive.
C34_SftpModeIffSession == (input_mode = "Sftp") <=> (sftp_state # None)

\* C34 witness: SFTP mode was left and is entered again with the Transfer
\* Session of a second worker.
C34_Witness ==
    /\ input_mode = "Sftp"
    /\ sftp_state # None
    /\ sftp_receiver = Some(2)

\* exit_sftp_mode was called and enter_sftp_mode was not called since: the
\* receiver of the exited session is still held (exit_sftp_mode keeps it) and
\* is_sftp_loading, set by enter_sftp_mode, is false
SftpExited == sftp_receiver # None /\ ~is_sftp_loading

\* C35: from exit_sftp_mode until the next enter_sftp_mode the events still
\* queued from the worker of the exited session change nothing of the SFTP state:
\* sftp_ready_for_terminal stays false and sftp_state stays None.
C35_ExitedSessionIgnored ==
    SftpExited => (~sftp_ready_for_terminal /\ sftp_state = None)

\* every index of the sequence idx is an index of hs
IndicesInRange(idx, hs) == \A k \in DOMAIN idx : idx[k] < Len(hs)

\* the statements of run_app that draw the host list (outside SFTP mode)
ListDrawPcs == {"draw", "redraw"}

\* C36: whenever the host list is drawn, every index of hosts_in_current_group,
\* and in Search mode every index of filtered_hosts, is smaller than the number
\* of hosts, after any reloads, one that failed after the registry was shrunk
\* included.
C36_DrawnIndicesInRange ==
    (main_pc \in ListDrawPcs /\ input_mode # "Sftp")
        => /\ IndicesInRange(hosts_in_current_group, hosts)
           /\ input_mode = "Search" => IndicesInRange(filtered_hosts, hosts)

\* C37: after a load every host of the registry, a system host without a group
\* included, is listed under some group of the groups list, so that it can be
\* selected in Normal mode.
C37_EveryHostSelectable ==
    last_load.ok
        => \A i \in DOMAIN hosts :
               \E g \in DOMAIN groups :
                   \E k \in DOMAIN HostsOfGroup(hosts, groups[g]) :
                       HostsOfGroup(hosts, groups[g])[k] = i - 1

\* C38: leaving Search mode with clear_search changes nothing but the search
\* state: selected_host, selected_group and the hosts of the current group are
\* what they were (no key of Search mode changes them before).
C38_ClearSearchFrame ==
    [][(input_mode = "Search" /\ input_mode' = "Normal")
           => /\ selected_host' = selected_host
              /\ selected_group' = selected_group
              /\ hosts_in_current_group' = hosts_in_current_group]_vars

\* a step to the next or the previous of n positions, wrapping at both ends
WrapStep(from, to, n) == to \in {(from + 1) % n, (from + n - 1) % n}

\* C40: the three selection indices stay in range (each below the length of its
\* list whenever that list is non-empty) through navigation, panel switches,
\* Search mode and reloads, and a selection that moves within an unchanged list
\* moves to the next or previous position, wrapping around at both ends.
C40_SelectionInRange ==
    /\ [](/\ groups # <<>> => selected_group < Len(groups)
          /\ hosts_in_current_group # <<>> => selected_host < Len(hosts_in_current_group)
          /\ filtered_hosts # <<>> => search_selected < Len(filtered_hosts))
    /\ [][/\ (input_mode = "Search" /\ input_mode' = "Search"
                /\ filtered_hosts' = filtered_hosts /\ search_selected' # search_selected)
               => WrapStep(search_selected, search_selected', Len(filtered_hosts))
          /\ (input_mode = "Normal" /\ input_mode' = "Normal" /\ last_load' = last_load
                /\ selected_group' # selected_group)
               => WrapStep(selected_group, selected_group', Len(groups))
          /\ (input_mode = "Normal" /\ input_mode' = "Normal" /\ last_load' = last_load
                /\ selected_group' = selected_group /\ selected_host' # selected_host)
               => WrapStep(selected_host, selected_host', Len(hosts_in_current_group))]_vars

\* C40 witness: the last of five filtered hosts is selected in Search mode, with
\* the third host of the second group selected behind it.
C40_Witness ==
    /\ input_mode = "Search"
    /\ Len(filtered_hosts) = 5
    /\ search_selected = 4
    /\ selected_group = 1
    /\ selected_host = 2

\* the two files are what they were when load_all_hosts was last called
SourcesUnchanged == last_load.sys = system_src /\ last_load.cust = custom_src

====
